---- MODULE Spec2Model ----
(***************************************************************************)
(* Model of the blockchain-to-relational-store synchronisation engine of   *)
(* the crowdfunding backend: the webhook receiver and batch endpoint       *)
(* (controllers/syncController.ts), the poller (services/autoSync.ts) and  *)
(* the fiat settlement path with its mint -> approve -> donate sequence    *)
(* (controllers/contributionController.ts), over the cache tables of       *)
(* sql/blockchain_cache.sql.                                               *)
(*                                                                         *)
(* Strings that the code takes apart (order ids, donation ids) are         *)
(* sequences of one-character strings, so that split("-"), parseInt and    *)
(* LIKE 'prefix%' are computed, not assumed.                               *)
(***************************************************************************)
EXTENDS Integers, Sequences, FiniteSets, TLC

VARIABLES
  campaigns,    \* blockchain_campaigns: id -> row
  donations,    \* blockchain_donations: id -> row
  withdrawals,  \* blockchain_withdrawals: id -> row
  badges,       \* blockchain_badges: token_id -> row
  syncStatus,   \* sync_status: serial id -> row
  isRunning,    \* autoSync.ts module flag
  ticks,        \* invocations of syncFromPonder, in the order they were triggered
  settle,       \* invocations of getQRISStatus, in the order they were received
  chain,        \* transactions confirmed for the backend signing address
  last,         \* the last response a webhook or batch call returned
  ops,          \* operations started so far (also the logical clock)
  budget,       \* operations the behaviour may start
  held          \* connections checked out of the pool and not released yet

vars == <<ops, budget, campaigns, donations, withdrawals, badges, syncStatus,
          isRunning, ticks, settle, chain, last, held>>

storeVars == <<campaigns, donations, withdrawals, badges, syncStatus>>

(* ------------------------------ bounds -------------------------------- *)

\* Operations (webhook calls, batch calls, poll triggers, settlement calls)
\* started in one behaviour of the whole system.
MaxOps == 2

\* Calls in one behaviour of the webhook receiver alone.
MaxCalls == 3

\* Poll triggers in one behaviour of the poller alone.
MaxTicks == 3

\* Operations in one behaviour of the webhook receiver with the poller.
MaxSyncOps == 2

\* Operations in one behaviour of the settlement path with the deliveries of
\* the events it causes.
MaxSettleOps == 3

\* Calls in the donation webhook's own specification.
MaxDonationCalls == 3

\* Settlement calls in one behaviour of the chain writer's own specification.
MaxChainCalls == 1

\* Transactions of other senders from the signing address in one behaviour.
MaxExternal == 1

\* Operations started on the pool (SpecPool).
MaxPoolOps == 2

\* Webhook calls and poll cycles in one behaviour of the race (SpecRace).
MaxRaceOps == 4

\* Runs of the setup script and webhook calls in one behaviour (SpecSetup).
MaxSetupOps == 2

\* Settlement calls and deliveries in one behaviour of SpecAbsent.
MaxAbsentOps == 2

\* Webhook deliveries and badge checks in one behaviour of SpecBadge.
MaxBadgeOps == 3

(* --------------------------- JavaScript values ------------------------ *)

\* A numeric field that is absent from the JSON body (undefined; NULL in SQL).
UndefN == -1

\* A string field that is absent from the JSON body (undefined; NULL in SQL).
UndefS == "<undefined>"

\* An id that is absent from the JSON body.
UndefId == <<"<undefined>">>

\* !v for a number: undefined and 0 are falsy.
FalsyN(v) == v = UndefN \/ v = 0

\* !v for a string: undefined and "" are falsy.
FalsyS(v) == v = UndefS \/ v = ""

\* v || d for a string.
OrS(v, d) == IF FalsyS(v) THEN d ELSE v

\* v || d for a number.
OrN(v, d) == IF FalsyN(v) THEN d ELSE v

\* The characters of a decimal number.
Digits == <<"0", "1", "2", "3", "4", "5", "6", "7", "8", "9">>

IsDigit(c) == \E i \in 1..10 : Digits[i] = c

DigitVal(c) == (CHOOSE i \in 1..10 : Digits[i] = c) - 1

\* `qris-${x}`: the prefix of a synthetic donation id.
QrisPrefix == <<"q", "r", "i", "s", "-">>

\* s LIKE p%: p is a prefix of s.
LikePrefix(s, p) == Len(p) <= Len(s) /\ SubSeq(s, 1, Len(p)) = p

(* ----------------------------- store state ---------------------------- *)

EntityTypes == {"campaign", "donation", "withdrawal", "badge"}

\* The rows blockchain_cache.sql seeds into sync_status, keyed by their serial id.
SeedSyncStatus ==
  [i \in 1..4 |->
     [entity_type |-> <<"campaign", "donation", "withdrawal", "badge">>[i],
      last_block_number |-> 0,
      last_synced_at |-> 0,
      total_synced |-> 0,
      status |-> "healthy",
      error_message |-> UndefS]]

\* The configured shared secret of the webhook receiver.
PONDER_API_KEY == "ponder-sync-key"

\* An insert or update of one row: ok, or the store's error, and the table after it.
Ok(t) == [ok |-> TRUE, table |-> t]

Err(t) == [ok |-> FALSE, table |-> t]

\* A write that would leave the new row alone in its table.
PutAlone(f, k, v) == [x \in {k} |-> v]

\* f with key k bound to v.
Put(f, k, v) == [x \in DOMAIN f \cup {k} |-> IF x = k THEN v ELSE f[x]]

(* ----------------------------- upsert engine -------------------------- *)

\* A campaign upsert that would keep the greater of the stored and the incoming
\* balance.
UpsertCampaignWebhookClamped(t, c, now) ==
  IF c.id = UndefN \/ c.name = UndefS \/ c.owner = UndefS
     \/ c.targetAmount = UndefN \/ c.creationTime = UndefN
  THEN Err(t)
  ELSE IF c.id \in DOMAIN t
  THEN Ok([t EXCEPT ![c.id] =
             [@ EXCEPT !.name = c.name,
                       !.creator_name = OrS(c.creatorName, ""),
                       !.owner = c.owner,
                       !.balance = IF OrN(c.balance, 0) > @ THEN OrN(c.balance, 0) ELSE @,
                       !.target_amount = c.targetAmount,
                       !.last_synced_at = now]])
  ELSE Ok(Put(t, c.id,
              [name |-> c.name, creator_name |-> OrS(c.creatorName, ""),
               owner |-> c.owner, balance |-> OrN(c.balance, 0),
               target_amount |-> c.targetAmount,
               creation_time |-> c.creationTime, last_synced_at |-> now]))

\* INSERT INTO blockchain_campaigns ... ON CONFLICT (id) DO UPDATE of the campaign
\* webhook. NOT NULL: name, owner, target_amount, creation_time.
UpsertCampaignWebhook(t, c, now) ==
  IF c.id = UndefN \/ c.name = UndefS \/ c.owner = UndefS
     \/ c.targetAmount = UndefN \/ c.creationTime = UndefN
  THEN Err(t)
  ELSE IF c.id \in DOMAIN t
  THEN Ok([t EXCEPT ![c.id] =
             [@ EXCEPT !.name = c.name,
                       !.creator_name = OrS(c.creatorName, ""),
                       !.owner = c.owner,
                       !.balance = OrN(c.balance, 0),
                       !.target_amount = c.targetAmount,
                       !.last_synced_at = now]])
  ELSE Ok(Put(t, c.id,
              [name |-> c.name, creator_name |-> OrS(c.creatorName, ""),
               owner |-> c.owner, balance |-> OrN(c.balance, 0),
               target_amount |-> c.targetAmount,
               creation_time |-> c.creationTime, last_synced_at |-> now]))

\* The poller's campaign upsert: owner is written on insert only.
UpsertCampaignPoller(t, c, now) ==
  IF c.id = UndefN \/ c.name = UndefS \/ c.owner = UndefS
     \/ c.targetAmount = UndefN \/ c.creationTime = UndefN
  THEN Err(t)
  ELSE IF c.id \in DOMAIN t
  THEN Ok([t EXCEPT ![c.id] =
             [@ EXCEPT !.name = c.name,
                       !.creator_name = OrS(c.creatorName, ""),
                       !.balance = OrN(c.balance, 0),
                       !.target_amount = c.targetAmount,
                       !.last_synced_at = now]])
  ELSE Ok(Put(t, c.id,
              [name |-> c.name, creator_name |-> OrS(c.creatorName, ""),
               owner |-> c.owner, balance |-> OrN(c.balance, 0),
               target_amount |-> c.targetAmount,
               creation_time |-> c.creationTime, last_synced_at |-> now]))

\* The batch endpoint's campaign upsert: the values are passed as given (a
\* missing balance or creatorName is stored as NULL); on conflict only name,
\* balance and target_amount are replaced.
UpsertCampaignBatch(t, c, now) ==
  IF c.id = UndefN \/ c.name = UndefS \/ c.owner = UndefS
     \/ c.targetAmount = UndefN \/ c.creationTime = UndefN
  THEN Err(t)
  ELSE IF c.id \in DOMAIN t
  THEN Ok([t EXCEPT ![c.id] =
             [@ EXCEPT !.name = c.name,
                       !.balance = c.balance,
                       !.target_amount = c.targetAmount,
                       !.last_synced_at = now]])
  ELSE Ok(Put(t, c.id,
              [name |-> c.name, creator_name |-> c.creatorName,
               owner |-> c.owner, balance |-> c.balance,
               target_amount |-> c.targetAmount,
               creation_time |-> c.creationTime, last_synced_at |-> now]))

\* A donation insert that would replace the row on a conflict.
InsertDonationReplacing(t, camps, d, now) ==
  IF d.id = UndefId \/ d.campaignId = UndefN \/ d.donor = UndefS
     \/ d.amount = UndefN \/ d.transactionHash = UndefS
     \/ d.blockNumber = UndefN \/ d.timestamp = UndefN
  THEN Err(t)
  ELSE IF d.campaignId \notin DOMAIN camps
  THEN Err(t)
  ELSE Ok(Put(t, d.id,
              [campaign_id |-> d.campaignId, donor |-> d.donor,
               amount |-> d.amount, transaction_hash |-> d.transactionHash,
               block_number |-> d.blockNumber, timestamp |-> d.timestamp,
               payment_method |-> UndefS, qris_order_id |-> UndefId,
               last_synced_at |-> now]))

\* A donation insert on a table that would have no foreign key on campaign_id.
InsertDonationUnreferenced(t, camps, d, now) ==
  IF d.id = UndefId \/ d.campaignId = UndefN \/ d.donor = UndefS
     \/ d.amount = UndefN \/ d.transactionHash = UndefS
     \/ d.blockNumber = UndefN \/ d.timestamp = UndefN
  THEN Err(t)
  ELSE IF d.id \in DOMAIN t
  THEN Ok(t)
  ELSE Ok(Put(t, d.id,
              [campaign_id |-> d.campaignId, donor |-> d.donor,
               amount |-> d.amount, transaction_hash |-> d.transactionHash,
               block_number |-> d.blockNumber, timestamp |-> d.timestamp,
               payment_method |-> UndefS, qris_order_id |-> UndefId,
               last_synced_at |-> now]))

\* INSERT INTO blockchain_donations ... ON CONFLICT (id) DO NOTHING, the same
\* statement on the webhook, the batch endpoint and the poller. The NOT NULL
\* columns are checked before the conflict is looked for; the foreign key on
\* campaign_id is checked only for a row that is inserted.
InsertDonation(t, camps, d, now) ==
  IF d.id = UndefId \/ d.campaignId = UndefN \/ d.donor = UndefS
     \/ d.amount = UndefN \/ d.transactionHash = UndefS
     \/ d.blockNumber = UndefN \/ d.timestamp = UndefN
  THEN Err(t)
  ELSE IF d.id \in DOMAIN t
  THEN Ok(t)
  ELSE IF d.campaignId \notin DOMAIN camps
  THEN Err(t)
  ELSE Ok(Put(t, d.id,
              [campaign_id |-> d.campaignId, donor |-> d.donor,
               amount |-> d.amount, transaction_hash |-> d.transactionHash,
               block_number |-> d.blockNumber, timestamp |-> d.timestamp,
               payment_method |-> UndefS, qris_order_id |-> UndefId,
               last_synced_at |-> now]))

\* A withdrawal insert that would replace the row on a conflict.
InsertWithdrawalReplacing(t, camps, w, now) ==
  IF w.id = UndefId \/ w.campaignId = UndefN \/ w.owner = UndefS
     \/ w.amount = UndefN \/ w.transactionHash = UndefS
     \/ w.blockNumber = UndefN \/ w.timestamp = UndefN
  THEN Err(t)
  ELSE IF w.campaignId \notin DOMAIN camps
  THEN Err(t)
  ELSE Ok(Put(t, w.id,
              [campaign_id |-> w.campaignId, name |-> w.name, owner |-> w.owner,
               creator_name |-> w.creatorName, amount |-> w.amount,
               transaction_hash |-> w.transactionHash,
               block_number |-> w.blockNumber, timestamp |-> w.timestamp,
               last_synced_at |-> now]))

\* INSERT INTO blockchain_withdrawals ... ON CONFLICT (id) DO NOTHING with the
\* values as the batch endpoint passes them.
InsertWithdrawal(t, camps, w, now) ==
  IF w.id = UndefId \/ w.campaignId = UndefN \/ w.owner = UndefS
     \/ w.amount = UndefN \/ w.transactionHash = UndefS
     \/ w.blockNumber = UndefN \/ w.timestamp = UndefN
  THEN Err(t)
  ELSE IF w.id \in DOMAIN t
  THEN Ok(t)
  ELSE IF w.campaignId \notin DOMAIN camps
  THEN Err(t)
  ELSE Ok(Put(t, w.id,
              [campaign_id |-> w.campaignId, name |-> w.name, owner |-> w.owner,
               creator_name |-> w.creatorName, amount |-> w.amount,
               transaction_hash |-> w.transactionHash,
               block_number |-> w.blockNumber, timestamp |-> w.timestamp,
               last_synced_at |-> now]))

\* The webhook's and the poller's withdrawal insert: name || "", creatorName || "".
InsertWithdrawalDefaulted(t, camps, w, now) ==
  InsertWithdrawal(t, camps,
                   [w EXCEPT !.name = OrS(w.name, ""),
                             !.creatorName = OrS(w.creatorName, "")], now)

\* A badge upsert that would also replace the name on a conflict.
UpsertBadgeRenaming(t, b, now) ==
  IF b.tokenId = UndefN \/ b.owner = UndefS \/ b.name = UndefS
     \/ b.transactionHash = UndefS \/ b.blockNumber = UndefN
     \/ b.timestamp = UndefN
  THEN Err(t)
  ELSE Ok(Put(t, b.tokenId,
              [owner |-> b.owner, name |-> b.name,
               transaction_hash |->
                  IF b.tokenId \in DOMAIN t THEN t[b.tokenId].transaction_hash
                  ELSE b.transactionHash,
               block_number |->
                  IF b.tokenId \in DOMAIN t THEN t[b.tokenId].block_number
                  ELSE b.blockNumber,
               timestamp |->
                  IF b.tokenId \in DOMAIN t THEN t[b.tokenId].timestamp
                  ELSE b.timestamp,
               last_synced_at |-> now]))

\* INSERT INTO blockchain_badges ... ON CONFLICT (token_id) DO UPDATE SET owner,
\* last_synced_at: the same statement on the webhook, the batch endpoint and the
\* poller.
UpsertBadge(t, b, now) ==
  IF b.tokenId = UndefN \/ b.owner = UndefS \/ b.name = UndefS
     \/ b.transactionHash = UndefS \/ b.blockNumber = UndefN
     \/ b.timestamp = UndefN
  THEN Err(t)
  ELSE IF b.tokenId \in DOMAIN t
  THEN Ok([t EXCEPT ![b.tokenId] =
             [@ EXCEPT !.owner = b.owner, !.last_synced_at = now]])
  ELSE Ok(Put(t, b.tokenId,
              [owner |-> b.owner, name |-> b.name,
               transaction_hash |-> b.transactionHash,
               block_number |-> b.blockNumber, timestamp |-> b.timestamp,
               last_synced_at |-> now]))

\* A ledger update that would leave total_synced as it is.
updateSyncStatusUncounted(ss, entityType, blockNumber, now, updateFails) ==
  IF updateFails
  THEN ss
  ELSE [i \in DOMAIN ss |->
          IF ss[i].entity_type = entityType
          THEN [ss[i] EXCEPT
                  !.last_block_number =
                     IF blockNumber = UndefN THEN @ ELSE blockNumber,
                  !.last_synced_at = now,
                  !.status = "healthy",
                  !.error_message = UndefS]
          ELSE ss[i]]

\* A ledger update that would mark the rows of the entity type when the UPDATE
\* is rejected.
updateSyncStatusMarking(ss, entityType, blockNumber, now, updateFails) ==
  [i \in DOMAIN ss |->
     IF ss[i].entity_type = entityType
     THEN IF updateFails
          THEN [ss[i] EXCEPT !.status = "error", !.error_message = "update failed"]
          ELSE [ss[i] EXCEPT
                  !.last_block_number =
                     IF blockNumber = UndefN THEN @ ELSE blockNumber,
                  !.last_synced_at = now,
                  !.total_synced = @ + 1,
                  !.status = "healthy",
                  !.error_message = UndefS]
     ELSE ss[i]]

\* updateSyncStatus: every sync_status row of the entity type gets
\* last_block_number = COALESCE(blockNumber, last_block_number), total_synced + 1,
\* status healthy, error_message NULL. A failing UPDATE is caught and logged.
updateSyncStatus(ss, entityType, blockNumber, now, updateFails) ==
  IF updateFails
  THEN ss
  ELSE [i \in DOMAIN ss |->
          IF ss[i].entity_type = entityType
          THEN [ss[i] EXCEPT
                  !.last_block_number =
                     IF blockNumber = UndefN THEN @ ELSE blockNumber,
                  !.last_synced_at = now,
                  !.total_synced = @ + 1,
                  !.status = "healthy",
                  !.error_message = UndefS]
          ELSE ss[i]]

(* ------------------------------- payloads ----------------------------- *)

D1 == <<"d", "1">>

D2 == <<"d", "2">>

W1 == <<"w", "1">>

W2 == <<"w", "2">>

CampA ==
  [id |-> 1, name |-> "A", creatorName |-> "cr", owner |-> "o1", balance |-> 2,
   targetAmount |-> 5, creationTime |-> 10]

\* Campaign 1 again: every field differs, the balance is lower.
CampB ==
  [id |-> 1, name |-> "B", creatorName |-> UndefS, owner |-> "o2", balance |-> 1,
   targetAmount |-> 6, creationTime |-> 11]

CampC ==
  [id |-> 2, name |-> "C", creatorName |-> "cr", owner |-> "o1",
   balance |-> UndefN, targetAmount |-> 5, creationTime |-> 12]

\* No name.
CampBad == [CampC EXCEPT !.name = UndefS]

CampaignBodies == {CampA, CampB, CampC, CampBad}

BalanceBodies ==
  {[campaignId |-> 1, newBalance |-> 4], [campaignId |-> 2, newBalance |-> UndefN]}

DonA ==
  [id |-> D1, campaignId |-> 1, donor |-> "u1", amount |-> 3,
   transactionHash |-> "0xa", blockNumber |-> 7, timestamp |-> 20]

\* Donation d1 again: every field differs, the block is older.
DonB ==
  [id |-> D1, campaignId |-> 2, donor |-> "u2", amount |-> 4,
   transactionHash |-> "0xb", blockNumber |-> 5, timestamp |-> 21]

DonC ==
  [id |-> D2, campaignId |-> 1, donor |-> "u2", amount |-> 4,
   transactionHash |-> "0xc", blockNumber |-> 6, timestamp |-> 22]

\* No donor.
DonBad == [DonC EXCEPT !.donor = UndefS]

WdA ==
  [id |-> W1, campaignId |-> 1, name |-> "A", owner |-> "o1",
   creatorName |-> "cr", amount |-> 2, transactionHash |-> "0xd",
   blockNumber |-> 8, timestamp |-> 30]

\* Withdrawal w1 again: every field differs.
WdB ==
  [id |-> W1, campaignId |-> 2, name |-> UndefS, owner |-> "o2",
   creatorName |-> UndefS, amount |-> 1, transactionHash |-> "0xe",
   blockNumber |-> 4, timestamp |-> 31]

\* No block number and no timestamp: the webhook's validation does not ask for them.
WdNoBlock ==
  [id |-> W2, campaignId |-> 1, name |-> "A", owner |-> "o1",
   creatorName |-> "cr", amount |-> 2, transactionHash |-> "0xf",
   blockNumber |-> UndefN, timestamp |-> UndefN]

\* No owner.
WdBad == [WdA EXCEPT !.id = W2, !.owner = UndefS]

BdA ==
  [tokenId |-> 1, owner |-> "o1", name |-> "A", transactionHash |-> "0xg",
   blockNumber |-> 9, timestamp |-> 40]

\* Badge 1 again: every field differs.
BdB ==
  [tokenId |-> 1, owner |-> "o2", name |-> "B", transactionHash |-> "0xh",
   blockNumber |-> 3, timestamp |-> 41]

\* No block number and no timestamp: the webhook's validation does not ask for them.
BdNoBlock ==
  [tokenId |-> 2, owner |-> "o1", name |-> "C", transactionHash |-> "0xi",
   blockNumber |-> UndefN, timestamp |-> UndefN]

\* No name.
BdBad == [BdA EXCEPT !.tokenId = 2, !.name = UndefS]

\* Withdrawal w2 of campaign 1 with no name and no creator name.
WdC == [WdA EXCEPT !.id = W2, !.name = UndefS, !.creatorName = UndefS]

WithdrawalBodies == {WdA, WdB, WdNoBlock, WdBad}

BadgeBodies == {BdA, BdB, BdNoBlock, BdBad}

\* The x-ponder-api-key headers tried: the secret, another value, and no header.
Keys == {PONDER_API_KEY, "wrong-key", UndefS}

(* ------------------------------ batch bodies -------------------------- *)

\* A campaign with its donations, a withdrawal and a badge: every item is valid.
BatchGood ==
  [campaigns |-> <<CampA, CampC>>, donations |-> <<DonA, DonC>>,
   withdrawals |-> <<WdA>>, badges |-> <<BdA>>]

\* Three donations, the second without a donor.
BatchBadMiddle ==
  [campaigns |-> <<CampA>>, donations |-> <<DonA, DonBad, DonC>>,
   withdrawals |-> << >>, badges |-> << >>]

\* Re-deliveries with other contents, and no campaigns[].
BatchRedeliver ==
  [campaigns |-> << >>, donations |-> <<DonB>>, withdrawals |-> <<WdB>>,
   badges |-> <<BdB>>]

\* The last item of the last list fails.
BatchBadLast ==
  [campaigns |-> <<CampB>>, donations |-> << >>, withdrawals |-> <<WdA>>,
   badges |-> <<BdA, BdBad>>]

BatchBodies == {BatchGood, BatchBadMiddle, BatchRedeliver, BatchBadLast}

(* -------------------------- lists of statements ----------------------- *)

\* for (const c of campaigns) await client.query(upsert): the table after the
\* statements up to and including the first one the store rejects.
RECURSIVE BatchCampaigns(_, _, _)
BatchCampaigns(t, items, now) ==
  IF items = << >>
  THEN Ok(t)
  ELSE LET r == UpsertCampaignBatch(t, Head(items), now)
       IN IF r.ok THEN BatchCampaigns(r.table, Tail(items), now) ELSE r

RECURSIVE PollCampaigns(_, _, _)
PollCampaigns(t, items, now) ==
  IF items = << >>
  THEN Ok(t)
  ELSE LET r == UpsertCampaignPoller(t, Head(items), now)
       IN IF r.ok THEN PollCampaigns(r.table, Tail(items), now) ELSE r

\* A poller that would go on with the next donation after a rejected one.
RECURSIVE InsertDonationsSkipping(_, _, _, _)
InsertDonationsSkipping(t, camps, items, now) ==
  IF items = << >>
  THEN Ok(t)
  ELSE InsertDonationsSkipping(InsertDonation(t, camps, Head(items), now).table,
                               camps, Tail(items), now)

RECURSIVE InsertDonations(_, _, _, _)
InsertDonations(t, camps, items, now) ==
  IF items = << >>
  THEN Ok(t)
  ELSE LET r == InsertDonation(t, camps, Head(items), now)
       IN IF r.ok THEN InsertDonations(r.table, camps, Tail(items), now) ELSE r

RECURSIVE BatchWithdrawals(_, _, _, _)
BatchWithdrawals(t, camps, items, now) ==
  IF items = << >>
  THEN Ok(t)
  ELSE LET r == InsertWithdrawal(t, camps, Head(items), now)
       IN IF r.ok THEN BatchWithdrawals(r.table, camps, Tail(items), now) ELSE r

\* A poller that would pass name and creatorName as they come.
PollWithdrawalsUndefaulted(t, camps, items, now) == BatchWithdrawals(t, camps, items, now)

RECURSIVE PollWithdrawals(_, _, _, _)
PollWithdrawals(t, camps, items, now) ==
  IF items = << >>
  THEN Ok(t)
  ELSE LET r == InsertWithdrawalDefaulted(t, camps, Head(items), now)
       IN IF r.ok THEN PollWithdrawals(r.table, camps, Tail(items), now) ELSE r

RECURSIVE UpsertBadges(_, _, _)
UpsertBadges(t, items, now) ==
  IF items = << >>
  THEN Ok(t)
  ELSE LET r == UpsertBadge(t, Head(items), now)
       IN IF r.ok THEN UpsertBadges(r.table, Tail(items), now) ELSE r

\* A batch that would write the donations and withdrawals before the campaigns.
BatchTransactionCampaignsLast(body, now) ==
  LET d == InsertDonations(donations, campaigns, body.donations, now)
      w == BatchWithdrawals(withdrawals, campaigns, body.withdrawals, now)
      c == BatchCampaigns(campaigns, body.campaigns, now)
      b == UpsertBadges(badges, body.badges, now)
  IN [ok |-> c.ok /\ d.ok /\ w.ok /\ b.ok,
      campaigns |-> c.table,
      donations |-> d.table,
      withdrawals |-> w.table,
      badges |-> b.table]

\* BEGIN ... COMMIT of syncBatch: the four lists in the order campaigns,
\* donations, withdrawals, badges on one connection; the tables the
\* transaction would commit, and whether every statement was accepted.
BatchTransaction(body, now) ==
  LET c == BatchCampaigns(campaigns, body.campaigns, now)
      d == InsertDonations(donations, c.table, body.donations, now)
      w == BatchWithdrawals(withdrawals, c.table, body.withdrawals, now)
      b == UpsertBadges(badges, body.badges, now)
  IN [ok |-> c.ok /\ d.ok /\ w.ok /\ b.ok,
      campaigns |-> c.table,
      donations |-> IF c.ok THEN d.table ELSE donations,
      withdrawals |-> IF c.ok /\ d.ok THEN w.table ELSE withdrawals,
      badges |-> IF c.ok /\ d.ok /\ w.ok THEN b.table ELSE badges]

\* A transaction end that would keep what the statements before the failure wrote.
BatchOutcomeKept(tx) == tx

\* COMMIT after the last statement, ROLLBACK in the catch block: what the
\* tables hold once the transaction has ended.
BatchOutcome(tx) ==
  IF tx.ok
  THEN tx
  ELSE [ok |-> FALSE, campaigns |-> campaigns, donations |-> donations,
        withdrawals |-> withdrawals, badges |-> badges]

(* ------------------------------ connection pool ----------------------- *)

\* const client = await pool.connect()
Acquire(h) == h + 1

\* A handler that would call client.release() at the end of the try block and
\* in the catch block, and so not after a return from inside the try block.
FinallySkippedOnReturn(h, exit) == IF exit = "return" THEN h ELSE h - 1

\* finally { client.release() }: runs once however the try block was left, by
\* a return inside it ("return"), by reaching its end ("end") or through the
\* catch block ("catch").
Finally(h, exit) == h - 1

\* How a webhook handler that answers with this code leaves its try block.
ExitOf(code) ==
  CASE code = 400 -> "return"
    [] code = 500 -> "catch"
    [] OTHER -> "end"

(* ------------------------------ webhook receiver ---------------------- *)

\* res.status(code).json(...) of a webhook or batch call.
Respond(op, key, body, code) ==
  /\ last' = [n |-> ops + 1, op |-> op, key |-> key, body |-> body, code |-> code]
  /\ ops' = ops + 1
  /\ held' = IF code = 401 THEN held ELSE Finally(Acquire(held), ExitOf(code))
  /\ UNCHANGED budget

\* A middleware that would let every request through.
validatePonderApiKeyOpen(key) == TRUE

\* validatePonderApiKey: the header must equal the configured secret.
validatePonderApiKey(key) == key = PONDER_API_KEY

\* A donation validation that would not ask for the timestamp.
DonationMissingNoTimestamp(body) ==
  body.id = UndefId \/ body.campaignId = UndefN \/ FalsyS(body.donor)
  \/ FalsyN(body.amount) \/ FalsyS(body.transactionHash)
  \/ FalsyN(body.blockNumber)

\* The validation of each handler: a required field is absent or falsy.
CampaignMissing(body) ==
  body.id = UndefN \/ FalsyS(body.name) \/ FalsyS(body.owner)
  \/ FalsyN(body.targetAmount) \/ FalsyN(body.creationTime)

DonationMissing(body) ==
  body.id = UndefId \/ body.campaignId = UndefN \/ FalsyS(body.donor)
  \/ FalsyN(body.amount) \/ FalsyS(body.transactionHash)
  \/ FalsyN(body.blockNumber) \/ FalsyN(body.timestamp)

WithdrawalMissing(body) ==
  body.id = UndefId \/ body.campaignId = UndefN \/ FalsyS(body.owner)
  \/ FalsyN(body.amount) \/ FalsyS(body.transactionHash)

BadgeMissing(body) ==
  body.tokenId = UndefN \/ FalsyS(body.owner) \/ FalsyS(body.name)
  \/ FalsyS(body.transactionHash)

\* POST /api/sync/campaign
syncCampaign(key, body, updateFails) ==
  /\ ops < budget
  /\ UNCHANGED <<donations, withdrawals, badges, isRunning, ticks, settle, chain>>
  /\ IF ~validatePonderApiKey(key)
     THEN Respond("syncCampaign", key, body, 401) /\ UNCHANGED <<campaigns, syncStatus>>
     ELSE IF CampaignMissing(body)
     THEN Respond("syncCampaign", key, body, 400) /\ UNCHANGED <<campaigns, syncStatus>>
     ELSE LET r == UpsertCampaignWebhook(campaigns, body, ops + 1)
          IN IF ~r.ok
             THEN Respond("syncCampaign", key, body, 500)
                  /\ UNCHANGED <<campaigns, syncStatus>>
             ELSE /\ campaigns' = r.table
                  /\ syncStatus' = updateSyncStatus(syncStatus, "campaign", UndefN,
                                                     ops + 1, updateFails)
                  /\ Respond("syncCampaign", key, body, 200)

\* A balance webhook that would also count in the sync-status ledger.
syncCampaignBalanceCounted(key, body) ==
  /\ ops < budget
  /\ UNCHANGED <<donations, withdrawals, badges, isRunning, ticks, settle, chain>>
  /\ IF ~validatePonderApiKey(key)
     THEN Respond("syncCampaignBalance", key, body, 401)
          /\ UNCHANGED <<campaigns, syncStatus>>
     ELSE IF body.campaignId = UndefN \/ body.newBalance = UndefN
     THEN Respond("syncCampaignBalance", key, body, 400)
          /\ UNCHANGED <<campaigns, syncStatus>>
     ELSE /\ campaigns' =
               [i \in DOMAIN campaigns |->
                  IF i = body.campaignId
                  THEN [campaigns[i] EXCEPT !.balance = body.newBalance,
                                            !.last_synced_at = ops + 1]
                  ELSE campaigns[i]]
          /\ syncStatus' = updateSyncStatus(syncStatus, "campaign", UndefN,
                                             ops + 1, FALSE)
          /\ Respond("syncCampaignBalance", key, body, 200)

\* POST /api/sync/campaign-balance
syncCampaignBalance(key, body) ==
  /\ ops < budget
  /\ UNCHANGED <<donations, withdrawals, badges, syncStatus, isRunning, ticks,
                 settle, chain>>
  /\ IF ~validatePonderApiKey(key)
     THEN Respond("syncCampaignBalance", key, body, 401) /\ UNCHANGED campaigns
     ELSE IF body.campaignId = UndefN \/ body.newBalance = UndefN
     THEN Respond("syncCampaignBalance", key, body, 400) /\ UNCHANGED campaigns
     ELSE /\ campaigns' =
               [i \in DOMAIN campaigns |->
                  IF i = body.campaignId
                  THEN [campaigns[i] EXCEPT !.balance = body.newBalance,
                                            !.last_synced_at = ops + 1]
                  ELSE campaigns[i]]
          /\ Respond("syncCampaignBalance", key, body, 200)

\* A donation webhook that would answer 500 when the ledger update fails; the
\* insert, made outside any transaction, stays.
syncDonationStrict(key, body, updateFails) ==
  /\ ops < budget
  /\ UNCHANGED <<campaigns, withdrawals, badges, isRunning, ticks, settle, chain>>
  /\ IF ~validatePonderApiKey(key)
     THEN Respond("syncDonation", key, body, 401) /\ UNCHANGED <<donations, syncStatus>>
     ELSE IF DonationMissing(body)
     THEN Respond("syncDonation", key, body, 400) /\ UNCHANGED <<donations, syncStatus>>
     ELSE LET r == InsertDonation(donations, campaigns, body, ops + 1)
          IN IF ~r.ok
             THEN Respond("syncDonation", key, body, 500)
                  /\ UNCHANGED <<donations, syncStatus>>
             ELSE /\ donations' = r.table
                  /\ syncStatus' = updateSyncStatus(syncStatus, "donation",
                                                     body.blockNumber, ops + 1,
                                                     updateFails)
                  /\ Respond("syncDonation", key, body,
                             IF updateFails THEN 500 ELSE 200)

\* POST /api/sync/donation
syncDonation(key, body, updateFails) ==
  /\ ops < budget
  /\ UNCHANGED <<campaigns, withdrawals, badges, isRunning, ticks, settle, chain>>
  /\ IF ~validatePonderApiKey(key)
     THEN Respond("syncDonation", key, body, 401) /\ UNCHANGED <<donations, syncStatus>>
     ELSE IF DonationMissing(body)
     THEN Respond("syncDonation", key, body, 400) /\ UNCHANGED <<donations, syncStatus>>
     ELSE LET r == InsertDonation(donations, campaigns, body, ops + 1)
          IN IF ~r.ok
             THEN Respond("syncDonation", key, body, 500)
                  /\ UNCHANGED <<donations, syncStatus>>
             ELSE /\ donations' = r.table
                  /\ syncStatus' = updateSyncStatus(syncStatus, "donation",
                                                     body.blockNumber, ops + 1,
                                                     updateFails)
                  /\ Respond("syncDonation", key, body, 200)

\* POST /api/sync/withdrawal
syncWithdrawal(key, body, updateFails) ==
  /\ ops < budget
  /\ UNCHANGED <<campaigns, donations, badges, isRunning, ticks, settle, chain>>
  /\ IF ~validatePonderApiKey(key)
     THEN Respond("syncWithdrawal", key, body, 401)
          /\ UNCHANGED <<withdrawals, syncStatus>>
     ELSE IF WithdrawalMissing(body)
     THEN Respond("syncWithdrawal", key, body, 400)
          /\ UNCHANGED <<withdrawals, syncStatus>>
     ELSE LET r == InsertWithdrawalDefaulted(withdrawals, campaigns, body, ops + 1)
          IN IF ~r.ok
             THEN Respond("syncWithdrawal", key, body, 500)
                  /\ UNCHANGED <<withdrawals, syncStatus>>
             ELSE /\ withdrawals' = r.table
                  /\ syncStatus' = updateSyncStatus(syncStatus, "withdrawal",
                                                     body.blockNumber, ops + 1,
                                                     updateFails)
                  /\ Respond("syncWithdrawal", key, body, 200)

\* POST /api/sync/badge
syncBadge(key, body, updateFails) ==
  /\ ops < budget
  /\ UNCHANGED <<campaigns, donations, withdrawals, isRunning, ticks, settle, chain>>
  /\ IF ~validatePonderApiKey(key)
     THEN Respond("syncBadge", key, body, 401) /\ UNCHANGED <<badges, syncStatus>>
     ELSE IF BadgeMissing(body)
     THEN Respond("syncBadge", key, body, 400) /\ UNCHANGED <<badges, syncStatus>>
     ELSE LET r == UpsertBadge(badges, body, ops + 1)
          IN IF ~r.ok
             THEN Respond("syncBadge", key, body, 500)
                  /\ UNCHANGED <<badges, syncStatus>>
             ELSE /\ badges' = r.table
                  /\ syncStatus' = updateSyncStatus(syncStatus, "badge",
                                                     body.blockNumber, ops + 1,
                                                     updateFails)
                  /\ Respond("syncBadge", key, body, 200)

\* POST /api/sync/batch
syncBatch(key, body) ==
  /\ ops < budget
  /\ UNCHANGED <<syncStatus, isRunning, ticks, settle, chain>>
  /\ IF ~validatePonderApiKey(key)
     THEN Respond("syncBatch", key, body, 401)
          /\ UNCHANGED <<campaigns, donations, withdrawals, badges>>
     ELSE LET out == BatchOutcome(BatchTransaction(body, ops + 1))
          IN /\ campaigns' = out.campaigns
             /\ donations' = out.donations
             /\ withdrawals' = out.withdrawals
             /\ badges' = out.badges
             /\ Respond("syncBatch", key, body, IF out.ok THEN 200 ELSE 500)

\* GET /api/sync/status: two SELECTs on one connection; the route has no
\* credential check, and no header and no body are read.
getSyncStatus(queryFails) ==
  /\ ops < budget
  /\ Respond("getSyncStatus", UndefS, [none |-> TRUE], IF queryFails THEN 500 ELSE 200)
  /\ UNCHANGED <<storeVars, isRunning, ticks, settle, chain>>

(* --------------------------------- chain ------------------------------ *)

\* The hash of the k-th transaction confirmed for the signing address.
TxHash(k) == "0x" \o ToString(k)

\* provider.getTransactionCount(wallet.address, "latest")
TransactionCount == Len(chain)

\* The positions of the confirmed donate transactions.
DonateTxs == {k \in DOMAIN chain : chain[k].kind = "donate"}

\* The donation event the indexer emits for the donate transaction at position
\* k: keyed by the chain's own event id, never by a payment order id.
ChainDonation(k) ==
  [id |-> <<"e", ToString(k)>>, campaignId |-> chain[k].campaignId,
   donor |-> "0xbackend", amount |-> chain[k].amount,
   transactionHash |-> TxHash(k), blockNumber |-> k, timestamp |-> 50 + k]

\* The donation bodies the indexer pushes.
DonationBodies == {DonA, DonB, DonC, DonBad} \cup {ChainDonation(k) : k \in DonateTxs}

(* --------------------------------- poller ----------------------------- *)

\* An answer of the indexer's query API: the items, or a failed request.
Items(l) == [ok |-> TRUE, items |-> l]

FetchFailed == [ok |-> FALSE, items |-> << >>]

CampaignAnswers == {FetchFailed, Items(<<CampA, CampC>>), Items(<<CampB>>)}

\* The chain's donate events in the order of their transactions.
RECURSIVE ChainDonationsFrom(_)
ChainDonationsFrom(k) ==
  IF k > Len(chain)
  THEN << >>
  ELSE IF chain[k].kind = "donate"
  THEN <<ChainDonation(k)>> \o ChainDonationsFrom(k + 1)
  ELSE ChainDonationsFrom(k + 1)

DonationAnswers ==
  {FetchFailed, Items(<<DonA, DonC>>), Items(<<DonB>>),
   Items(<<DonA, DonBad, DonC>>), Items(ChainDonationsFrom(1))}

BadgeAnswers == {FetchFailed, Items(<<BdA>>), Items(<<BdB>>)}

WithdrawalAnswers == {FetchFailed, Items(<<WdA>>), Items(<<WdB, WdNoBlock>>)}

\* The invocations of syncFromPonder that are between isRunning = true and the
\* end of the finally block.
Executing == {"connect", "campaigns", "donations", "badges", "withdrawals"}

\* A guard that would let every trigger through.
PollGuardOpen(running) == FALSE

\* if (isRunning) return; isRunning = true; pool.connect() is called.
PollGuard(running) == running

\* A tick that would give up at the first entity type that fails.
PhaseAfterAborting(phase, failed) ==
  IF failed
  THEN "done"
  ELSE CASE phase = "campaigns" -> "donations"
         [] phase = "donations" -> "badges"
         [] phase = "badges" -> "withdrawals"
         [] phase = "withdrawals" -> "done"

\* The four try/catch blocks of syncFromPonder follow one another: each catch
\* only logs, so the next block is entered whether or not this one failed.
PhaseAfter(phase, failed) ==
  CASE phase = "campaigns" -> "donations"
    [] phase = "donations" -> "badges"
    [] phase = "badges" -> "withdrawals"
    [] phase = "withdrawals" -> "done"

\* The request was rejected, or the store rejected one of the statements: the
\* try block of this entity type was left through its catch.
PhaseFailed(answer, r) == ~answer.ok \/ ~r.ok

\* The tick i once the block of its current entity type has been left.
PhaseLeft(i, answer, r) ==
  [ticks EXCEPT
     ![i].pc = PhaseAfter(ticks[i].pc, PhaseFailed(answer, r)),
     ![i].queries = @ + 1]

\* setInterval fires, or startAutoSync makes its first call: syncFromPonder runs
\* up to its first await.
PollTrigger ==
  /\ ops < budget
  /\ ops' = ops + 1
  /\ IF PollGuard(isRunning)
     THEN /\ ticks' = Append(ticks, [pc |-> "skipped", queries |-> 0])
          /\ UNCHANGED isRunning
     ELSE /\ ticks' = Append(ticks, [pc |-> "connect", queries |-> 0])
          /\ isRunning' = TRUE
  /\ UNCHANGED <<storeVars, settle, chain, last, budget, held>>

\* const client = await pool.connect(). The await is outside the try block: when
\* it rejects, neither the catch nor the finally block runs and the promise of
\* syncFromPonder rejects with nobody awaiting it.
PollConnect(i, connectFails) ==
  /\ ticks[i].pc = "connect"
  /\ IF connectFails
     THEN /\ ticks' = [ticks EXCEPT ![i].pc = "rejected"]
          /\ UNCHANGED <<isRunning, held>>
     ELSE /\ ticks' = [ticks EXCEPT ![i].pc = "campaigns"]
          /\ held' = Acquire(held)
          /\ UNCHANGED isRunning
  /\ UNCHANGED <<storeVars, settle, chain, last, ops, budget>>

\* 1. Sync Campaigns
PollCampaignsStep(i, answer) ==
  /\ ticks[i].pc = "campaigns"
  /\ LET r == PollCampaigns(campaigns, answer.items, ops)
     IN /\ campaigns' = r.table
        /\ ticks' = PhaseLeft(i, answer, r)
  /\ UNCHANGED <<donations, withdrawals, badges, syncStatus, isRunning, settle,
                 chain, last, ops, budget, held>>

\* 2. Sync Donations
PollDonationsStep(i, answer) ==
  /\ ticks[i].pc = "donations"
  /\ LET r == InsertDonations(donations, campaigns, answer.items, ops)
     IN /\ donations' = r.table
        /\ ticks' = PhaseLeft(i, answer, r)
  /\ UNCHANGED <<campaigns, withdrawals, badges, syncStatus, isRunning, settle,
                 chain, last, ops, budget, held>>

\* 3. Sync Badges
PollBadgesStep(i, answer) ==
  /\ ticks[i].pc = "badges"
  /\ LET r == UpsertBadges(badges, answer.items, ops)
     IN /\ badges' = r.table
        /\ ticks' = PhaseLeft(i, answer, r)
  /\ UNCHANGED <<campaigns, donations, withdrawals, syncStatus, isRunning, settle,
                 chain, last, ops, budget, held>>

\* 4. Sync Withdrawals, then the finally block: client.release(), isRunning = false.
PollWithdrawalsStep(i, answer) ==
  /\ ticks[i].pc = "withdrawals"
  /\ LET r == PollWithdrawals(withdrawals, campaigns, answer.items, ops)
     IN /\ withdrawals' = r.table
        /\ ticks' = PhaseLeft(i, answer, r)
  /\ isRunning' = FALSE
  /\ held' = Finally(held, "end")
  /\ UNCHANGED <<campaigns, donations, badges, syncStatus, settle, chain, last, ops, budget>>

(* ------------------------------ settlement ---------------------------- *)

\* The payment order ids tried: qris-1-7, and qris-1-70, of which the first is a
\* proper prefix.
OrderA == <<"q", "r", "i", "s", "-", "1", "-", "7">>

OrderB == OrderA \o <<"0">>

Orders == {OrderA, OrderB}

\* parseInt of no digits.
NaN == -2

\* s.split("-")[1]: the characters between the first and the second "-".
RECURSIVE UpToDash(_)
UpToDash(s) ==
  IF s = << >> \/ Head(s) = "-" THEN << >> ELSE <<Head(s)>> \o UpToDash(Tail(s))

RECURSIVE AfterDash(_)
AfterDash(s) ==
  IF s = << >> THEN << >> ELSE IF Head(s) = "-" THEN Tail(s) ELSE AfterDash(Tail(s))

SecondPart(s) == UpToDash(AfterDash(s))

\* parseInt(s): the value of the leading digits, NaN when there is none.
RECURSIVE LeadingDigits(_, _)
LeadingDigits(s, acc) ==
  IF s = << >> \/ ~IsDigit(Head(s))
  THEN acc
  ELSE LeadingDigits(Tail(s), 10 * acc + DigitVal(Head(s)))

parseInt(s) ==
  IF s = << >> \/ ~IsDigit(Head(s)) THEN NaN ELSE LeadingDigits(s, 0)

\* parseFloat(response.data.gross_amount) of the orders tried.
GrossAmount == 5

\* ethers.utils.parseUnits(amount.toString(), 2)
parseUnits2(amount) == amount * 100

\* The rows of SELECT * FROM blockchain_donations WHERE id LIKE 'qris-<orderId>%'.
existingTransaction(t, orderId) ==
  {id \in DOMAIN t : LikePrefix(id, QrisPrefix \o orderId)}

\* A request arrives: POST /api/contribution/qris-status/:orderId, and the handler
\* has its connection. `after` records the calls that had been answered by then.
SettleStart(orderId) ==
  /\ ops < budget
  /\ ops' = ops + 1
  /\ settle' = Append(settle,
                      [order |-> orderId, pc |-> "guard",
                       after |-> {k \in DOMAIN settle : settle[k].pc = "done"},
                       campaignId |-> NaN, nonce |-> 0, donateTx |-> 0, code |-> 0,
                       message |-> "", error |-> "", cause |-> ""])
  /\ held' = Acquire(held)
  /\ UNCHANGED <<storeVars, isRunning, ticks, chain, last, budget>>

\* How getQRISStatus leaves its try block when it answers: through the catch
\* block, by reaching the end of the if/else, or by one of its returns.
SettleExit(call) ==
  IF call.message = "Internal server error"
  THEN "catch"
  ELSE IF call.message \in {"QRIS payment processed", "Transaction not settled"}
  THEN "end"
  ELSE "return"

\* The connections checked out once the call i has taken its step: the finally
\* block runs when the step has answered.
SettleHeld(i) ==
  IF settle'[i].pc = "done" THEN Finally(held, SettleExit(settle'[i])) ELSE held

\* The anti-replay check.
SettleGuard(i) ==
  /\ settle[i].pc = "guard"
  /\ IF existingTransaction(donations, settle[i].order) # {}
     THEN settle' = [settle EXCEPT ![i].pc = "done", ![i].code = 200,
                                   ![i].message = "Transaction already processed"]
     ELSE settle' = [settle EXCEPT ![i].pc = "status"]
  /\ held' = SettleHeld(i)
  /\ UNCHANGED <<storeVars, isRunning, ticks, chain, last, ops, budget>>

\* axios.get of the payment provider's status, and the parse of its order_id.
SettleStatus(i, answer) ==
  /\ settle[i].pc = "status"
  /\ IF answer = "error"
     THEN settle' = [settle EXCEPT ![i].pc = "done", ![i].code = 500,
                                   ![i].message = "Internal server error"]
     ELSE IF answer # "settlement"
     THEN settle' = [settle EXCEPT ![i].pc = "done", ![i].code = 200,
                                   ![i].message = "Transaction not settled"]
     ELSE IF parseInt(SecondPart(settle[i].order)) = NaN
     THEN settle' = [settle EXCEPT ![i].pc = "done", ![i].code = 400,
                                   ![i].message = "Invalid order_id format"]
     ELSE settle' = [settle EXCEPT ![i].pc = "campaign",
                                   ![i].campaignId =
                                      parseInt(SecondPart(settle[i].order))]
  /\ held' = SettleHeld(i)
  /\ UNCHANGED <<storeVars, isRunning, ticks, chain, last, ops, budget>>

\* A confirmation that would go on to the chain writer without looking the
\* campaign up.
SettleCampaignUnchecked(i) ==
  /\ settle[i].pc = "campaign"
  /\ settle' = [settle EXCEPT ![i].pc = "mintNonce"]
  /\ held' = SettleHeld(i)
  /\ UNCHANGED <<storeVars, isRunning, ticks, chain, last, ops, budget>>

\* SELECT id, name FROM blockchain_campaigns WHERE id = $1, then the call of
\* mintAndDonateIDRX up to its first await.
SettleCampaign(i) ==
  /\ settle[i].pc = "campaign"
  /\ IF settle[i].campaignId \notin DOMAIN campaigns
     THEN settle' = [settle EXCEPT ![i].pc = "done", ![i].code = 404,
                                   ![i].message = "Campaign not found"]
     ELSE settle' = [settle EXCEPT ![i].pc = "mintNonce"]
  /\ held' = SettleHeld(i)
  /\ UNCHANGED <<storeVars, isRunning, ticks, chain, last, ops, budget>>

(* ------------------------------ chain writer -------------------------- *)

\* The step of mintAndDonateIDRX at each position of a settlement call.
StepKind(pc) ==
  CASE pc \in {"mintNonce", "mint"} -> "mint"
    [] pc \in {"approveNonce", "approve"} -> "approve"
    [] OTHER -> "donate"

\* A chain writer that would donate right after the mint.
StepAfterSkipping(kind) ==
  CASE kind = "mint" -> "donateNonce"
    [] kind = "approve" -> "donateNonce"
    [] OTHER -> "insert"

\* What follows a confirmed step: approve after mint, donate after approve, and
\* the return to getQRISStatus after donate.
StepAfter(kind) ==
  CASE kind = "mint" -> "approveNonce"
    [] kind = "approve" -> "donateNonce"
    [] OTHER -> "insert"

\* The ways a submitted transaction can end. A nonce that is not the signing
\* address's transaction count is refused by the chain. A donate to a campaign
\* the contract does not know reverts with CampaignNotFound; the library's error
\* message carries the revert reason and, depending on where the revert is
\* detected, also the populated transaction with its nonce field.
ChainOutcomes(kind, nonce) ==
  IF nonce # TransactionCount
  THEN {"nonce"}
  ELSE {"ok", "nonce", "other"}
       \cup (IF kind = "donate" THEN {"CampaignNotFound", "CampaignNotFoundTx"} ELSE {})

\* err.code of a failed submission.
ErrorCode(outcome) ==
  IF outcome = "nonce" THEN "NONCE_EXPIRED" ELSE "CALL_EXCEPTION"

\* The words of interest that err.message includes.
MessageWords(outcome) ==
  CASE outcome = "nonce" -> {"nonce"}
    [] outcome = "CampaignNotFound" -> {"CampaignNotFound"}
    [] outcome = "CampaignNotFoundTx" -> {"CampaignNotFound", "nonce"}
    [] OTHER -> {}

\* The catch block of mintAndDonateIDRX: the class of a failure. The nonce test
\* comes first.
ErrorClass(outcome) ==
  IF ErrorCode(outcome) = "NONCE_EXPIRED" \/ "nonce" \in MessageWords(outcome)
  THEN "NONCE_ERROR"
  ELSE IF "CampaignNotFound" \in MessageWords(outcome)
  THEN "CAMPAIGN_NOT_FOUND"
  ELSE ""

\* A chain writer that would go on to the next step after a failed one.
MintAndDonateContinued(call, outcome) ==
  [call EXCEPT !.pc = StepAfter(@), !.cause = outcome]

\* A chain writer whose failure would still let getQRISStatus store the row.
MintAndDonateFailedInserting(call, outcome) ==
  [call EXCEPT !.pc = "insert", !.cause = outcome]

\* The return of {success: false} from the catch block and the 500 answer of
\* getQRISStatus: the call is over. `cause` records what the chain did.
MintAndDonateFailed(call, outcome) ==
  [call EXCEPT !.pc = "done", !.code = 500,
               !.message = "Minting and donation failed",
               !.error = ErrorClass(outcome), !.cause = outcome]

\* A nonce that would be queried for the mint only and counted up locally after.
ChainNonceCounted(i) ==
  /\ settle[i].pc \in {"mintNonce", "approveNonce", "donateNonce"}
  /\ settle' = [settle EXCEPT ![i].pc = StepKind(@),
                              ![i].nonce = IF settle[i].pc = "mintNonce"
                                           THEN TransactionCount ELSE @ + 1]
  /\ UNCHANGED <<storeVars, isRunning, ticks, chain, last, ops, budget, held>>

\* const nonce = await provider.getTransactionCount(wallet.address, "latest")
ChainNonce(i) ==
  /\ settle[i].pc \in {"mintNonce", "approveNonce", "donateNonce"}
  /\ settle' = [settle EXCEPT ![i].pc = StepKind(@), ![i].nonce = TransactionCount]
  /\ UNCHANGED <<storeVars, isRunning, ticks, chain, last, ops, budget, held>>

\* const tx = await contract.<step>(..., {nonce}); await tx.wait(). A failure
\* returns {success: false} and getQRISStatus answers 500.
ChainSubmit(i, outcome) ==
  /\ settle[i].pc \in {"mint", "approve", "donate"}
  /\ outcome \in ChainOutcomes(settle[i].pc, settle[i].nonce)
  /\ IF outcome = "ok"
     THEN /\ chain' = Append(chain, [kind |-> settle[i].pc, nonce |-> settle[i].nonce,
                                     by |-> i, order |-> settle[i].order,
                                     campaignId |-> settle[i].campaignId,
                                     amount |-> parseUnits2(GrossAmount)])
          /\ settle' = [settle EXCEPT ![i].pc = StepAfter(@),
                                      ![i].donateTx =
                                         IF settle[i].pc = "donate"
                                         THEN Len(chain) + 1 ELSE @]
     ELSE /\ settle' = [settle EXCEPT ![i] = MintAndDonateFailed(@, outcome)]
          /\ UNCHANGED chain
  /\ held' = SettleHeld(i)
  /\ UNCHANGED <<storeVars, isRunning, ticks, last, ops, budget>>

\* The synthetic donation row of a settlement whose donate transaction is at
\* position k of the chain.
SyntheticDonation(orderId, campaignId, k, now) ==
  [campaign_id |-> campaignId, donor |-> "0xcampaign",
   amount |-> parseUnits2(GrossAmount), transaction_hash |-> TxHash(k),
   block_number |-> k, timestamp |-> now, payment_method |-> "QRIS",
   qris_order_id |-> orderId, last_synced_at |-> now]

\* A settlement insert that would also count the row in the sync-status ledger.
SettleInsertCounting(i, insertFails) ==
  /\ settle[i].pc = "insert"
  /\ LET id == QrisPrefix \o settle[i].order
     IN IF insertFails \/ id \in DOMAIN donations
           \/ settle[i].campaignId \notin DOMAIN campaigns
        THEN UNCHANGED <<donations, syncStatus>>
        ELSE /\ donations' = Put(donations, id,
                                 SyntheticDonation(settle[i].order,
                                                   settle[i].campaignId,
                                                   settle[i].donateTx, ops))
             /\ syncStatus' = updateSyncStatus(syncStatus, "donation",
                                                settle[i].donateTx, ops, FALSE)
  /\ settle' = [settle EXCEPT ![i].pc = "done", ![i].code = 200,
                              ![i].message = "QRIS payment processed"]
  /\ held' = SettleHeld(i)
  /\ UNCHANGED <<campaigns, withdrawals, badges, isRunning, ticks,
                 chain, last, ops, budget>>

\* INSERT INTO blockchain_donations (..., payment_method, qris_order_id,
\* qris_gross_amount) without ON CONFLICT, inside its own try block: a rejected
\* insert is logged and the request still answers 200. The DDL of
\* sql/blockchain_cache.sql defines none of the three QRIS columns, so a store
\* created from it rejects every such insert; insertFails stands for that store
\* and for any other store failure.
SettleInsert(i, insertFails) ==
  /\ settle[i].pc = "insert"
  /\ LET id == QrisPrefix \o settle[i].order
     IN IF insertFails \/ id \in DOMAIN donations
           \/ settle[i].campaignId \notin DOMAIN campaigns
        THEN UNCHANGED donations
        ELSE donations' = Put(donations, id,
                              SyntheticDonation(settle[i].order, settle[i].campaignId,
                                                settle[i].donateTx, ops))
  /\ settle' = [settle EXCEPT ![i].pc = "done", ![i].code = 200,
                              ![i].message = "QRIS payment processed"]
  /\ held' = SettleHeld(i)
  /\ UNCHANGED <<campaigns, withdrawals, badges, syncStatus, isRunning, ticks,
                 chain, last, ops, budget>>

(* ------------------------------ badge service ------------------------- *)

\* LOWER(): the addresses tried differ in case only.
Lower(a) == IF a = "0xD1" THEN "0xd1" ELSE a

\* const badgeTitle = `Supporter: ${campaignName}`
BadgeTitle(campaignName) == "Supporter: " \o campaignName

\* SELECT token_id FROM blockchain_badges WHERE LOWER(owner) = LOWER($1) AND name = $2
existingBadge(t, donorAddress, badgeTitle) ==
  {k \in DOMAIN t : Lower(t[k].owner) = Lower(donorAddress) /\ t[k].name = badgeTitle}

\* How checkAndMintBadge leaves its try block: the three returns (campaign not
\* cached, badge already held, balance too low), the catch block after a
\* failed mintBadge or wait(), or the end after a confirmed mint.
BadgeExit(donorAddress, campaignId, outcome) ==
  IF campaignId \notin DOMAIN campaigns
  THEN "return"
  ELSE IF existingBadge(badges, donorAddress, BadgeTitle(campaigns[campaignId].name)) # {}
  THEN "return"
  ELSE CASE outcome = "insufficient" -> "return"
         [] outcome = "failed" -> "catch"
         [] outcome = "minted" -> "end"

\* checkAndMintBadge(donorAddress, campaignId, donationAmount): nothing is
\* written to the store; a confirmed mintBadge is one more transaction of the
\* signing address.
checkAndMintBadge(donorAddress, campaignId, outcome) ==
  /\ ops < budget
  /\ ops' = ops + 1
  /\ LET exit == BadgeExit(donorAddress, campaignId, outcome)
     IN /\ IF exit = "end"
           THEN chain' = Append(chain, [kind |-> "mintBadge", nonce |-> TransactionCount,
                                        by |-> 0, order |-> << >>,
                                        campaignId |-> campaignId, amount |-> 0])
           ELSE UNCHANGED chain
        /\ held' = Finally(Acquire(held), exit)
  /\ UNCHANGED <<storeVars, isRunning, ticks, settle, last, budget>>

(* ----------------------------- specification -------------------------- *)

\* The store after setup, the process after start: empty cache tables, the
\* seeded sync_status rows, no poll cycle and no request yet.
Boot ==
  /\ campaigns = << >>
  /\ donations = << >>
  /\ withdrawals = << >>
  /\ badges = << >>
  /\ syncStatus = SeedSyncStatus
  /\ isRunning = FALSE
  /\ ticks = << >>
  /\ settle = << >>
  /\ chain = << >>
  /\ last = [n |-> 0, op |-> "none", key |-> "", body |-> [none |-> TRUE], code |-> 0]
  /\ ops = 0
  /\ held = 0

Init == Boot /\ budget = MaxOps

InitWebhook == Boot /\ budget = MaxCalls

InitPoller == Boot /\ budget = MaxTicks

InitSync == Boot /\ budget = MaxSyncOps

InitSettle == Boot /\ budget = MaxSettleOps

\* The POST routes of the webhook receiver, called with one of the given headers.
WebhookWith(keys) ==
  \/ \E key \in keys, body \in CampaignBodies, f \in BOOLEAN : syncCampaign(key, body, f)
  \/ \E key \in keys, body \in BalanceBodies : syncCampaignBalance(key, body)
  \/ \E key \in keys, body \in DonationBodies, f \in BOOLEAN : syncDonation(key, body, f)
  \/ \E key \in keys, body \in WithdrawalBodies, f \in BOOLEAN :
        syncWithdrawal(key, body, f)
  \/ \E key \in keys, body \in BadgeBodies, f \in BOOLEAN : syncBadge(key, body, f)
  \/ \E key \in keys, body \in BatchBodies : syncBatch(key, body)

Webhook == WebhookWith(Keys)

Poller ==
  \/ PollTrigger
  \/ \E i \in DOMAIN ticks, f \in BOOLEAN : PollConnect(i, f)
  \/ \E i \in DOMAIN ticks, a \in CampaignAnswers : PollCampaignsStep(i, a)
  \/ \E i \in DOMAIN ticks, a \in DonationAnswers : PollDonationsStep(i, a)
  \/ \E i \in DOMAIN ticks, a \in BadgeAnswers : PollBadgesStep(i, a)
  \/ \E i \in DOMAIN ticks, a \in WithdrawalAnswers : PollWithdrawalsStep(i, a)

Settlement ==
  \/ \E o \in Orders : SettleStart(o)
  \/ \E i \in DOMAIN settle : SettleGuard(i)
  \/ \E i \in DOMAIN settle, a \in {"settlement", "pending", "error"} :
        SettleStatus(i, a)
  \/ \E i \in DOMAIN settle : SettleCampaign(i)
  \/ \E i \in DOMAIN settle : ChainNonce(i)
  \/ \E i \in DOMAIN settle,
        o \in {"ok", "nonce", "other", "CampaignNotFound", "CampaignNotFoundTx"} :
        ChainSubmit(i, o)
  \/ \E i \in DOMAIN settle, f \in BOOLEAN : SettleInsert(i, f)

Next == Webhook \/ Poller \/ Settlement

\* The whole system.
Spec == Init /\ [][Next]_vars

\* The webhook receiver alone.
SpecWebhook == InitWebhook /\ [][Webhook]_vars

\* The poller alone.
SpecPoller == InitPoller /\ [][Poller]_vars

\* The two paths that write the cache from the indexer, which holds the secret.
SpecSync == InitSync /\ [][WebhookWith({PONDER_API_KEY}) \/ Poller]_vars

\* Donation DonA with one of its seven fields left out.
DonationsLacking ==
  {[DonA EXCEPT !.id = UndefId], [DonA EXCEPT !.campaignId = UndefN],
   [DonA EXCEPT !.donor = UndefS], [DonA EXCEPT !.amount = UndefN],
   [DonA EXCEPT !.transactionHash = UndefS], [DonA EXCEPT !.blockNumber = UndefN],
   [DonA EXCEPT !.timestamp = UndefN]}

InitDonation == Boot /\ budget = MaxDonationCalls

\* The donation webhook called with complete and incomplete payloads, and the
\* campaign webhook that caches the campaign they name.
DonationCalls ==
  \/ syncCampaign(PONDER_API_KEY, CampA, FALSE)
  \/ \E key \in Keys, body \in DonationsLacking \cup {DonA, DonB}, f \in BOOLEAN :
        syncDonation(key, body, f)

\* The donation webhook alone.
SpecDonation == InitDonation /\ [][DonationCalls]_vars

\* A transaction that something else sends from the signing address is confirmed.
ExternalTx ==
  /\ Cardinality({k \in DOMAIN chain : chain[k].kind = "external"}) < MaxExternal
  /\ UNCHANGED ops
  /\ chain' = Append(chain, [kind |-> "external", nonce |-> TransactionCount,
                             by |-> 0, order |-> << >>, campaignId |-> NaN,
                             amount |-> 0])
  /\ UNCHANGED <<storeVars, isRunning, ticks, settle, last, budget, held>>

\* The process starts on a store that an earlier run has filled with campaign 1.
InitChain ==
  /\ campaigns = UpsertCampaignWebhook(<< >>, CampA, 0).table
  /\ donations = << >>
  /\ withdrawals = << >>
  /\ badges = << >>
  /\ syncStatus = SeedSyncStatus
  /\ isRunning = FALSE
  /\ ticks = << >>
  /\ settle = << >>
  /\ chain = << >>
  /\ last = [n |-> 0, op |-> "none", key |-> "", body |-> [none |-> TRUE], code |-> 0]
  /\ ops = 0
  /\ held = 0
  /\ budget = MaxChainCalls

\* The chain writer inside the settlement calls, beside other use of the
\* signing address.
SpecChain == InitChain /\ [][Settlement \/ ExternalTx]_vars

\* The indexer pushes what the chain holds: the campaign the orders name, and
\* the donation events of the confirmed donate transactions.
Delivery ==
  \/ syncCampaign(PONDER_API_KEY, CampA, FALSE)
  \/ \E k \in DonateTxs : syncDonation(PONDER_API_KEY, ChainDonation(k), FALSE)

\* The settlement path with the deliveries of the events it causes.
SpecSettle == InitSettle /\ [][Settlement \/ Delivery]_vars

InitPool == Boot /\ budget = MaxPoolOps

\* Every operation that takes a connection from the pool: the webhook and
\* batch handlers with a complete and an incomplete payload each, the status
\* handler, the badge check, the poll cycle with a failed and an answered
\* request for each entity type, and the settlement confirmation.
PoolOperations ==
  \/ \E body \in {CampA, CampBad} : syncCampaign(PONDER_API_KEY, body, FALSE)
  \/ \E body \in BalanceBodies : syncCampaignBalance(PONDER_API_KEY, body)
  \/ \E body \in {DonA, DonBad} : syncDonation(PONDER_API_KEY, body, FALSE)
  \/ \E body \in {WdA, WdBad} : syncWithdrawal(PONDER_API_KEY, body, FALSE)
  \/ \E body \in {BdA, BdBad} : syncBadge(PONDER_API_KEY, body, FALSE)
  \/ \E key \in {PONDER_API_KEY, "wrong-key"}, body \in {BatchGood, BatchBadMiddle} :
        syncBatch(key, body)
  \/ \E f \in BOOLEAN : getSyncStatus(f)
  \/ \E c \in {1, 2}, o \in {"insufficient", "failed", "minted"} :
        checkAndMintBadge("0xD1", c, o)
  \/ PollTrigger
  \/ \E i \in DOMAIN ticks, f \in BOOLEAN : PollConnect(i, f)
  \/ \E i \in DOMAIN ticks, a \in {FetchFailed, Items(<<CampA, CampC>>)} :
        PollCampaignsStep(i, a)
  \/ \E i \in DOMAIN ticks, a \in {FetchFailed, Items(<<DonA, DonBad, DonC>>)} :
        PollDonationsStep(i, a)
  \/ \E i \in DOMAIN ticks, a \in {FetchFailed, Items(<<BdA>>)} : PollBadgesStep(i, a)
  \/ \E i \in DOMAIN ticks, a \in {FetchFailed, Items(<<WdB, WdNoBlock>>)} :
        PollWithdrawalsStep(i, a)
  \/ Settlement

\* The pool under every kind of operation.
SpecPool == InitPool /\ [][PoolOperations]_vars

InitRace == Boot /\ budget = MaxRaceOps

\* The indexer holds campaign 1, donation d1, badge 1 and withdrawal w2. It
\* pushes the three records to the webhook receiver while poll cycles fetch
\* the same records; the steps of the two paths interleave freely.
Race ==
  \/ syncDonation(PONDER_API_KEY, DonA, FALSE)
  \/ syncWithdrawal(PONDER_API_KEY, WdC, FALSE)
  \/ syncBadge(PONDER_API_KEY, BdA, FALSE)
  \/ PollTrigger
  \/ \E i \in DOMAIN ticks : PollConnect(i, FALSE)
  \/ \E i \in DOMAIN ticks : PollCampaignsStep(i, Items(<<CampA>>))
  \/ \E i \in DOMAIN ticks : PollDonationsStep(i, Items(<<DonA>>))
  \/ \E i \in DOMAIN ticks : PollBadgesStep(i, Items(<<BdA>>))
  \/ \E i \in DOMAIN ticks : PollWithdrawalsStep(i, Items(<<WdC>>))

\* The two writers of the same records.
SpecRace == InitRace /\ [][Race]_vars

\* scripts/setupDatabase.ts run on the store once more: every CREATE TABLE IF
\* NOT EXISTS finds its table, and the seed INSERT INTO sync_status (entity_type,
\* status) ... ON CONFLICT DO NOTHING is executed again. The only unique
\* constraint of sync_status is its serial id, which every new row gets fresh,
\* so no row conflicts and four rows are added. The script is a process of its
\* own, with a pool of its own.
setupDatabase ==
  /\ ops < budget
  /\ ops' = ops + 1
  /\ syncStatus' = syncStatus
                     \o [i \in 1..4 |-> [SeedSyncStatus[i] EXCEPT !.last_synced_at = ops + 1]]
  /\ UNCHANGED <<campaigns, donations, withdrawals, badges, isRunning, ticks,
                 settle, chain, last, budget, held>>

InitSetup == Boot /\ budget = MaxSetupOps

\* The webhook receiver on a store that the setup script may be run on again.
SpecSetup == InitSetup /\ [][setupDatabase \/ WebhookWith({PONDER_API_KEY})]_vars

InitAbsent == Boot /\ budget = MaxAbsentOps

\* Settlement confirmations on a store that starts without the campaign the
\* orders name; the indexer may deliver it at any time.
SpecAbsent ==
  InitAbsent /\ [][Settlement \/ syncCampaign(PONDER_API_KEY, CampA, FALSE)]_vars

InitBadge == Boot /\ budget = MaxBadgeOps

\* The badge check, always for the same donor, on a store that the indexer
\* fills through the webhook receiver.
BadgeCalls ==
  \E c \in {1, 2}, o \in {"insufficient", "failed", "minted"} :
     checkAndMintBadge("0xD1", c, o)

\* The badge service beside the webhook receiver.
SpecBadge == InitBadge /\ [][BadgeCalls \/ WebhookWith({PONDER_API_KEY})]_vars

(* -------------------------------- properties -------------------------- *)

\* The sync_status row of an entity type.
SyncRow(ss, entityType) ==
  ss[CHOOSE i \in DOMAIN ss : ss[i].entity_type = entityType]

\* A webhook or batch call was answered in this step.
Answered(op) == last'.n # last.n /\ last'.op = op

\* C1: whatever is delivered through the donation webhook, the batch endpoint or
\* the poller, a stored donation row stays exactly as its first insert wrote it
\* (one row per id, no field replaced), and a webhook re-delivery of a stored id
\* with the secret and a complete payload answers 200 and changes no row.
C1_DonationFirstInsertKept ==
  [][/\ \A id \in DOMAIN donations :
          id \in DOMAIN donations' /\ donations'[id] = donations[id]
     /\ (/\ Answered("syncDonation")
         /\ validatePonderApiKey(last'.key)
         /\ ~DonationMissing(last'.body)
         /\ last'.body.id \in DOMAIN donations)
        => last'.code = 200 /\ donations' = donations
     /\ (/\ Answered("syncDonation")
         /\ last'.code = 200
         /\ last'.body.id \notin DOMAIN donations)
        => /\ DOMAIN donations' = DOMAIN donations \cup {last'.body.id}
           /\ donations'[last'.body.id].donor = last'.body.donor
           /\ donations'[last'.body.id].amount = last'.body.amount]_vars

\* C1 happens: donation d1 was stored from DonA, the webhook then accepted DonB
\* for the same id, and the row still carries DonA.
C1_Witness ==
  /\ last.op = "syncDonation" /\ last.code = 200 /\ last.body = DonB
  /\ D1 \in DOMAIN donations
  /\ donations[D1].donor = DonA.donor
  /\ donations[D1].transaction_hash = DonA.transactionHash

\* C5: at most one invocation of syncFromPonder is between the guard and the end
\* of its finally block; a trigger that arrives while one is there appends a
\* skipped invocation that has issued no query, writes nothing, and is never
\* taken up again.
C5_SingleFlight ==
  [][/\ Cardinality({i \in DOMAIN ticks' : ticks'[i].pc \in Executing}) <= 1
     /\ \A i \in DOMAIN ticks :
          ticks[i].pc = "skipped" => ticks'[i] = ticks[i] /\ ticks[i].queries = 0
     /\ (/\ Len(ticks') = Len(ticks) + 1
         /\ \E i \in DOMAIN ticks : ticks[i].pc \in Executing)
        => /\ ticks'[Len(ticks')] = [pc |-> "skipped", queries |-> 0]
           /\ UNCHANGED storeVars]_vars

\* C5 happens: an invocation is past its campaigns phase and a later trigger was
\* skipped.
C5_Witness ==
  \E i, j \in DOMAIN ticks :
    /\ i < j
    /\ ticks[i].pc \in {"donations", "badges", "withdrawals"}
    /\ ticks[j].pc = "skipped"

\* C7: a batch call either commits every item or leaves the four tables and the
\* sync ledger as they were; a batch with an item that lacks a required column
\* is answered 500.
C7_BatchAtomic ==
  [][Answered("syncBatch") =>
       /\ IF last'.code = 200
          THEN /\ \A k \in DOMAIN last'.body.campaigns :
                     last'.body.campaigns[k].id \in DOMAIN campaigns'
               /\ \A k \in DOMAIN last'.body.donations :
                     last'.body.donations[k].id \in DOMAIN donations'
               /\ \A k \in DOMAIN last'.body.withdrawals :
                     last'.body.withdrawals[k].id \in DOMAIN withdrawals'
               /\ \A k \in DOMAIN last'.body.badges :
                     last'.body.badges[k].tokenId \in DOMAIN badges'
          ELSE UNCHANGED storeVars
       /\ (/\ validatePonderApiKey(last'.key)
           /\ \/ \E k \in DOMAIN last'.body.donations :
                   last'.body.donations[k].donor = UndefS
              \/ \E k \in DOMAIN last'.body.badges :
                   last'.body.badges[k].name = UndefS)
          => last'.code = 500 /\ UNCHANGED storeVars]_vars

\* C7 happens: the batch of three donations whose second has no donor was
\* answered 500 although its campaign and first donation had been written, and
\* neither is stored.
C7_Witness ==
  /\ last.op = "syncBatch" /\ last.code = 500 /\ last.body = BatchBadMiddle
  /\ validatePonderApiKey(last.key)
  /\ D1 \notin DOMAIN donations
  /\ 1 \notin DOMAIN campaigns

\* C8: a campaign upsert that succeeds, on the webhook or in the poller, stores
\* the incoming balance (0 when none is given) whether it is higher or lower
\* than the stored one, and a complete payload for a stored id is answered 200.
C8_CampaignLastWriteWins ==
  [][/\ (Answered("syncCampaign") /\ last'.code = 200)
        => campaigns'[last'.body.id].balance = OrN(last'.body.balance, 0)
     /\ (/\ Answered("syncCampaign")
         /\ validatePonderApiKey(last'.key)
         /\ ~CampaignMissing(last'.body)
         /\ last'.body.id \in DOMAIN campaigns)
        => last'.code = 200
     /\ \A i \in DOMAIN ticks, a \in CampaignAnswers :
          PollCampaignsStep(i, a)
          => \A k \in DOMAIN a.items :
               /\ a.items[k].id \in DOMAIN campaigns'
               /\ campaigns'[a.items[k].id].balance = OrN(a.items[k].balance, 0)]_vars

\* C8 happens: campaign 1 was inserted from CampA with balance 2 (its creation
\* time is still CampA's), CampB arrived for the same id with balance 1, and the
\* stored balance is 1.
C8_Witness ==
  /\ 1 \in DOMAIN campaigns
  /\ campaigns[1].creation_time = CampA.creationTime
  /\ campaigns[1].name = CampB.name
  /\ campaigns[1].balance = CampB.balance
  /\ CampB.balance < CampA.balance

\* C9: a stored badge keeps the name, transaction hash, block number and
\* timestamp of its first insert through every later step, and after a badge
\* upsert that succeeds (webhook, batch or poller) the stored owner is the one
\* of that upsert.
C9_BadgeIdentityKept ==
  [][/\ \A t \in DOMAIN badges :
          /\ t \in DOMAIN badges'
          /\ badges'[t].name = badges[t].name
          /\ badges'[t].transaction_hash = badges[t].transaction_hash
          /\ badges'[t].block_number = badges[t].block_number
          /\ badges'[t].timestamp = badges[t].timestamp
     /\ (Answered("syncBadge") /\ last'.code = 200)
        => badges'[last'.body.tokenId].owner = last'.body.owner
     /\ (Answered("syncBatch") /\ last'.code = 200)
        => \A k \in DOMAIN last'.body.badges :
             badges'[last'.body.badges[k].tokenId].owner = last'.body.badges[k].owner
     /\ \A i \in DOMAIN ticks, a \in BadgeAnswers :
          PollBadgesStep(i, a)
          => \A k \in DOMAIN a.items :
               badges'[a.items[k].tokenId].owner = a.items[k].owner]_vars

\* C9 happens: badge 1 was inserted from BdA, BdB arrived for the same token id,
\* and the row has BdA's identity and BdB's owner.
C9_Witness ==
  /\ 1 \in DOMAIN badges
  /\ badges[1].name = BdA.name
  /\ badges[1].transaction_hash = BdA.transactionHash
  /\ badges[1].block_number = BdA.blockNumber
  /\ badges[1].timestamp = BdA.timestamp
  /\ badges[1].owner = BdB.owner

\* What the donation webhook is said to do with a complete payload.
DonationLedgerEffect(body) ==
  /\ last'.code = 200
  /\ SyncRow(syncStatus', "donation").total_synced
       = SyncRow(syncStatus, "donation").total_synced + 1
  /\ IF body.id \notin DOMAIN donations
     THEN /\ DOMAIN donations' = DOMAIN donations \cup {body.id}
          /\ donations'[body.id].campaign_id = body.campaignId
          /\ donations'[body.id].donor = body.donor
          /\ donations'[body.id].amount = body.amount
          /\ donations'[body.id].transaction_hash = body.transactionHash
          /\ donations'[body.id].block_number = body.blockNumber
          /\ donations'[body.id].timestamp = body.timestamp
          /\ SyncRow(syncStatus', "donation").last_block_number >= body.blockNumber
     ELSE donations' = donations

Mints(orderId) ==
  {k \in DOMAIN chain : chain[k].kind = "mint" /\ chain[k].order = orderId}

\* C2: of two calls of getQRISStatus for one order id, the second made after the
\* first was answered "QRIS payment processed", the second submits no chain
\* transaction.
C2_SecondCallMintsNothing ==
  \A i, j \in DOMAIN settle :
    (/\ i \in settle[j].after
     /\ settle[i].order = settle[j].order
     /\ settle[i].message = "QRIS payment processed")
    => \A k \in DOMAIN chain : chain[k].by # j

\* C3: however the calls of getQRISStatus for one order id interleave or are
\* retried, the chain holds at most one mint transaction for that order.
C3_OneMintPerOrder == \A o \in Orders : Cardinality(Mints(o)) <= 1

C6_FlagClearedAfterTick ==
  (\A i \in DOMAIN ticks : ticks[i].pc \notin Executing) => ~isRunning

\* C11: the sync watermark never regresses: for every entity type, no step
\* leaves last_block_number lower than it was.
C11_WatermarkNeverRegresses ==
  [][\A i \in DOMAIN syncStatus :
       syncStatus'[i].last_block_number >= syncStatus[i].last_block_number]_vars

\* The sync_status row of an entity type was updated in this step: total_synced
\* one higher, last_synced_at set to the time of the step.
Counted(entityType) ==
  /\ SyncRow(syncStatus', entityType).total_synced
       = SyncRow(syncStatus, entityType).total_synced + 1
  /\ SyncRow(syncStatus', entityType).last_synced_at = ops'

\* C12: every successful write on every path is counted in sync_status: a
\* webhook call answered 200 (its ledger UPDATE accepted), a batch answered 200
\* for each entity type it carried, and a poller phase that wrote rows.
C12_EveryWriteCounted ==
  [][/\ \A body \in DonationBodies :
          (/\ Answered("syncDonation")
           /\ syncDonation(PONDER_API_KEY, body, FALSE)
           /\ last'.code = 200)
          => Counted("donation")
     /\ (Answered("syncBatch") /\ last'.code = 200)
        => /\ last'.body.campaigns # << >> => Counted("campaign")
           /\ last'.body.donations # << >> => Counted("donation")
           /\ last'.body.withdrawals # << >> => Counted("withdrawal")
           /\ last'.body.badges # << >> => Counted("badge")
     /\ \A i \in DOMAIN ticks :
          /\ (ticks[i].pc = "campaigns" /\ campaigns' # campaigns)
             => Counted("campaign")
          /\ (ticks[i].pc = "donations" /\ donations' # donations)
             => Counted("donation")
          /\ (ticks[i].pc = "badges" /\ badges' # badges)
             => Counted("badge")
          /\ (ticks[i].pc = "withdrawals" /\ withdrawals' # withdrawals)
             => Counted("withdrawal")]_vars

\* C13: a call of any webhook endpoint or of the batch endpoint whose
\* x-ponder-api-key header is absent or is not the secret is answered 401 and
\* changes no entity table and no sync_status row.
C13_UnauthorizedRejected ==
  [][(last'.n # last.n /\ last'.key # PONDER_API_KEY)
     => /\ last'.code = 401
        /\ UNCHANGED storeVars]_vars

\* C13 happens: the store holds campaign 1, and a batch call without the header
\* that carries another version of campaign 1 was answered 401.
C13_Witness ==
  /\ last.op = "syncBatch" /\ last.key = UndefS /\ last.code = 401
  /\ last.body = BatchBadLast
  /\ 1 \in DOMAIN campaigns
  /\ campaigns[1].name = CampA.name

\* One of the seven required fields of a donation payload is absent.
DonationLacks(body) ==
  \/ body.id = UndefId \/ body.campaignId = UndefN \/ body.donor = UndefS
  \/ body.amount = UndefN \/ body.transactionHash = UndefS
  \/ body.blockNumber = UndefN \/ body.timestamp = UndefN

\* C14: a donation webhook call with the secret whose payload lacks any of id,
\* campaign id, donor, amount, transaction hash, block number or timestamp is
\* answered 400 and leaves every table and the sync ledger as they were.
C14_DonationValidated ==
  [][(/\ Answered("syncDonation")
      /\ last'.key = PONDER_API_KEY
      /\ DonationLacks(last'.body))
     => /\ last'.code = 400
        /\ UNCHANGED storeVars]_vars

\* C14 happens: campaign 1 is cached, and the payload of DonA without its
\* timestamp was answered 400 with no donation stored.
C14_Witness ==
  /\ last.op = "syncDonation" /\ last.key = PONDER_API_KEY /\ last.code = 400
  /\ last.body = [DonA EXCEPT !.timestamp = UndefN]
  /\ 1 \in DOMAIN campaigns
  /\ donations = << >>
  /\ SyncRow(syncStatus, "donation").total_synced = 0

\* One of the seven required fields of a withdrawal payload is absent.
WithdrawalLacks(body) ==
  \/ body.id = UndefId \/ body.campaignId = UndefN \/ body.owner = UndefS
  \/ body.amount = UndefN \/ body.transactionHash = UndefS
  \/ body.blockNumber = UndefN \/ body.timestamp = UndefN

\* C15: whatever is delivered through the withdrawal webhook, the batch endpoint
\* or the poller, a stored withdrawal row stays exactly as its first insert wrote
\* it, and a webhook re-delivery of a stored id with the secret and a complete
\* payload answers 200 and changes no row.
C15_WithdrawalFirstInsertKept ==
  [][/\ \A id \in DOMAIN withdrawals :
          id \in DOMAIN withdrawals' /\ withdrawals'[id] = withdrawals[id]
     /\ (/\ Answered("syncWithdrawal")
         /\ last'.key = PONDER_API_KEY
         /\ ~WithdrawalLacks(last'.body)
         /\ last'.body.id \in DOMAIN withdrawals)
        => last'.code = 200 /\ withdrawals' = withdrawals
     /\ (/\ Answered("syncWithdrawal")
         /\ last'.code = 200
         /\ last'.body.id \notin DOMAIN withdrawals)
        => /\ DOMAIN withdrawals' = DOMAIN withdrawals \cup {last'.body.id}
           /\ withdrawals'[last'.body.id].owner = last'.body.owner
           /\ withdrawals'[last'.body.id].amount = last'.body.amount]_vars

\* C15 happens: withdrawal w1 was stored from WdA, the webhook then accepted WdB
\* for the same id, and the row still carries WdA.
C15_Witness ==
  /\ last.op = "syncWithdrawal" /\ last.code = 200 /\ last.body = WdB
  /\ W1 \in DOMAIN withdrawals
  /\ withdrawals[W1].owner = WdA.owner
  /\ withdrawals[W1].transaction_hash = WdA.transactionHash

\* C16: a withdrawal webhook call with the secret whose payload lacks any of id,
\* campaign id, owner, amount, transaction hash, block number or timestamp is
\* answered 400, a validation failure, and never reaches the store.
C16_WithdrawalValidated ==
  [][(/\ Answered("syncWithdrawal")
      /\ last'.key = PONDER_API_KEY
      /\ WithdrawalLacks(last'.body))
     => /\ last'.code = 400
        /\ UNCHANGED storeVars]_vars

\* The kinds of the confirmed transactions of settlement call i, in chain order.
KindsBy(i) ==
  LET own == SelectSeq(chain, LAMBDA r : r.by = i)
  IN [k \in 1..Len(own) |-> own[k].kind]

\* C17: within one run of mintAndDonateIDRX the approve is submitted only after
\* the mint is confirmed and the donate only after the approve is confirmed, and
\* a run that succeeded has confirmed exactly one mint, one approve and one
\* donate, in that order.
C17_ChainWriterSequential ==
  \A i \in DOMAIN settle :
    /\ KindsBy(i) \in {<< >>, <<"mint">>, <<"mint", "approve">>,
                       <<"mint", "approve", "donate">>}
    /\ settle[i].pc \in {"mintNonce", "mint"} => KindsBy(i) = << >>
    /\ settle[i].pc \in {"approveNonce", "approve"} => KindsBy(i) = <<"mint">>
    /\ settle[i].pc \in {"donateNonce", "donate"}
       => KindsBy(i) = <<"mint", "approve">>
    /\ (settle[i].pc = "insert" \/ settle[i].message = "QRIS payment processed")
       => KindsBy(i) = <<"mint", "approve", "donate">>

\* C17 happens: a settlement call was answered "QRIS payment processed" with its
\* mint, approve and donate confirmed, a transaction of another sender among them.
C17_Witness ==
  \E i \in DOMAIN settle :
    /\ settle[i].message = "QRIS payment processed"
    /\ KindsBy(i) = <<"mint", "approve", "donate">>
    /\ Len(chain) = 4

\* C18: the nonce of each step is the signing address's transaction count read
\* from the chain right before that step is submitted, never the previous
\* step's nonce plus one; every confirmed transaction carries the count the
\* chain had when it was confirmed.
C18_NonceQueriedAnew ==
  [][/\ \A i \in DOMAIN settle :
          (/\ settle[i].pc \in {"mintNonce", "approveNonce", "donateNonce"}
           /\ settle'[i].pc \in {"mint", "approve", "donate"})
          => settle'[i].nonce = Len(chain)
     /\ \A k \in DOMAIN chain' : chain'[k].nonce = k - 1]_vars

\* C18 happens: a transaction of another sender was confirmed between a call's
\* mint and its approve, and the approve was confirmed with the mint's nonce
\* plus two.
C18_Witness ==
  \E i \in DOMAIN settle, k \in DOMAIN chain :
    /\ k + 2 \in DOMAIN chain
    /\ chain[k].by = i /\ chain[k].kind = "mint"
    /\ chain[k + 1].kind = "external"
    /\ chain[k + 2].by = i /\ chain[k + 2].kind = "approve"
    /\ chain[k + 2].nonce = chain[k].nonce + 2

\* C19: when a step of mint, approve, donate fails, the call ends there with a
\* failure answer (500, never a success); a call that has ended submits nothing
\* more, and no confirmed transaction is ever taken back or compensated.
C19_AbortAtFailedStep ==
  [][/\ \A i \in DOMAIN settle :
          /\ (/\ settle[i].pc \in {"mint", "approve", "donate"}
              /\ settle'[i] # settle[i]
              /\ chain' = chain)
             => /\ settle'[i].pc = "done"
                /\ settle'[i].code = 500
                /\ settle'[i].message = "Minting and donation failed"
          /\ settle[i].pc = "done"
             => /\ settle'[i] = settle[i]
                /\ \A k \in DOMAIN chain' : chain'[k].by = i => k \in DOMAIN chain
     /\ \A k \in DOMAIN chain : chain'[k] = chain[k]]_vars

\* C19 happens: a call whose mint was confirmed failed at the approve; it was
\* answered 500 and the chain holds its mint and nothing else of it.
C19_Witness ==
  \E i \in DOMAIN settle :
    /\ settle[i].pc = "done" /\ settle[i].code = 500
    /\ settle[i].message = "Minting and donation failed"
    /\ KindsBy(i) = <<"mint">>

\* C20: a nonce conflict is classified NONCE_ERROR, a donate to a campaign the
\* contract does not know CAMPAIGN_NOT_FOUND, and any other failure gets no
\* class; a campaign-not-found failure is never classified NONCE_ERROR.
C20_FailureClasses ==
  \A i \in DOMAIN settle :
    /\ settle[i].cause = "nonce" => settle[i].error = "NONCE_ERROR"
    /\ settle[i].cause \in {"CampaignNotFound", "CampaignNotFoundTx"}
       => settle[i].error = "CAMPAIGN_NOT_FOUND"
    /\ settle[i].cause = "other" => settle[i].error = ""

\* C21: within one poll tick, a failure while fetching or upserting one entity
\* type does not keep the other entity types from being fetched and upserted:
\* whatever happened in the blocks before, a tick leaves every block for the
\* next one in the order campaigns, donations, badges, withdrawals, each
\* applying the items of its own answer, and ends having issued all four
\* requests.
C21_PhasesIndependent ==
  [][\A i \in DOMAIN ticks :
       (ticks[i].pc \in Executing \ {"connect"} /\ ticks'[i] # ticks[i])
       => /\ \/ /\ ticks[i].pc = "campaigns"
                /\ ticks'[i].pc = "donations"
                /\ \E answer \in CampaignAnswers :
                     campaigns' = PollCampaigns(campaigns, answer.items, ops).table
             \/ /\ ticks[i].pc = "donations"
                /\ ticks'[i].pc = "badges"
                /\ \E answer \in DonationAnswers :
                     donations' =
                       InsertDonations(donations, campaigns, answer.items, ops).table
             \/ /\ ticks[i].pc = "badges"
                /\ ticks'[i].pc = "withdrawals"
                /\ \E answer \in BadgeAnswers :
                     badges' = UpsertBadges(badges, answer.items, ops).table
             \/ /\ ticks[i].pc = "withdrawals"
                /\ ticks'[i].pc = "done"
                /\ \E answer \in WithdrawalAnswers :
                     withdrawals' =
                       PollWithdrawals(withdrawals, campaigns, answer.items, ops).table
          /\ ticks'[i].pc = "done" => ticks'[i].queries = 4]_vars

\* The first tick has finished. Its campaign request failed: every answered
\* one stores a campaign, and none is stored. Its donation block failed too,
\* no campaign being there to refer to. Its badge block stored a badge.
C21_Witness ==
  /\ Len(ticks) = 1
  /\ ticks[1].pc = "done"
  /\ ticks[1].queries = 4
  /\ campaigns = << >>
  /\ donations = << >>
  /\ DOMAIN badges # {}

\* The operations that hold a connection: a poll cycle between its
\* pool.connect() and its finally block, a settlement confirmation that has
\* not answered yet. Every other handler runs from connect to release within
\* one step.
InFlight ==
  Cardinality({i \in DOMAIN ticks : ticks[i].pc \in Executing \ {"connect"}})
  + Cardinality({i \in DOMAIN settle : settle[i].pc # "done"})

\* C22: every operation that acquires a store connection releases it exactly
\* once on every exit path (validation rejection, early return, a throwing
\* step): the connections held are exactly those of the operations in
\* flight, and none is held when no operation is in flight.
C22_ConnectionsReleased == held = InFlight

\* A webhook call has been rejected by its validation and a settlement
\* confirmation has ended by an early return; nothing is in flight and no
\* connection is held.
C22_Witness ==
  /\ last.code = 400
  /\ \E i \in DOMAIN settle : settle[i].pc = "done" /\ settle[i].code = 404
  /\ InFlight = 0
  /\ held = 0

\* A stored row without the time of its last synchronisation.
Content(row) == [row EXCEPT !.last_synced_at = 0]

\* The webhook receiver has accepted a record of this entity type.
Pushed(entityType) == SyncRow(syncStatus, entityType).total_synced >= 1

\* A poll cycle has left the block of an entity type, these being the
\* positions after it.
Polled(positions) == \E i \in DOMAIN ticks : ticks[i].pc \in positions

Merged(old, new, c) ==
  /\ new.name = c.name
  /\ new.owner = c.owner
  /\ new.balance = OrN(c.balance, 0)
  /\ new.target_amount = c.targetAmount
  /\ new.creation_time = old.creation_time

\* C24: on every path that writes campaigns (campaign webhook, batch endpoint,
\* poller) an upsert of a cached campaign id replaces name, owner, balance and
\* target amount by the incoming values and leaves the creation time as it is,
\* so that the three paths store the same row for the same record.
C24_SameMergeRule ==
  \A c \in {CampA, CampB, CampC} :
    c.id \in DOMAIN campaigns
    => LET w == UpsertCampaignWebhook(campaigns, c, ops).table[c.id]
           b == UpsertCampaignBatch(campaigns, c, ops).table[c.id]
           p == UpsertCampaignPoller(campaigns, c, ops).table[c.id]
       IN /\ Merged(campaigns[c.id], w, c)
          /\ Merged(campaigns[c.id], b, c)
          /\ Merged(campaigns[c.id], p, c)
          /\ w = b
          /\ w = p

\* C25: within one batch call the entity writes happen in the order campaigns,
\* donations, withdrawals, badges, so a batch that holds a new campaign
\* together with donations and withdrawals that refer to it commits all of
\* them.
C25_BatchOrder ==
  [][(/\ Answered("syncBatch")
      /\ last'.key = PONDER_API_KEY
      /\ last'.body = BatchGood)
     => /\ last'.code = 200
        /\ \A k \in DOMAIN BatchGood.campaigns :
             BatchGood.campaigns[k].id \in DOMAIN campaigns'
        /\ \A k \in DOMAIN BatchGood.donations :
             /\ BatchGood.donations[k].id \in DOMAIN donations'
             /\ BatchGood.donations[k].id \notin DOMAIN donations
                => donations'[BatchGood.donations[k].id].campaign_id
                     = BatchGood.donations[k].campaignId
        /\ \A k \in DOMAIN BatchGood.withdrawals :
             BatchGood.withdrawals[k].id \in DOMAIN withdrawals'
        /\ \A k \in DOMAIN BatchGood.badges :
             BatchGood.badges[k].tokenId \in DOMAIN badges']_vars

\* The first call was the batch with campaigns 1 and 2, two donations and a
\* withdrawal to campaign 1 and a badge; it was answered 200 and all are stored.
C25_Witness ==
  /\ last.n = 1
  /\ last.op = "syncBatch"
  /\ last.body = BatchGood
  /\ last.code = 200
  /\ DOMAIN campaigns = {1, 2}
  /\ DOMAIN donations = {D1, D2}
  /\ DOMAIN withdrawals = {W1}
  /\ DOMAIN badges = {1}

\* C26: no webhook, batch, poller or settlement operation deletes a cached
\* row: in every step the stored campaign ids, donation ids, withdrawal ids
\* and badge token ids are kept, so across any sequence of the operations the
\* four sets only grow.
C26_RowsNeverDeleted ==
  [][/\ DOMAIN campaigns \subseteq DOMAIN campaigns'
     /\ DOMAIN donations \subseteq DOMAIN donations'
     /\ DOMAIN withdrawals \subseteq DOMAIN withdrawals'
     /\ DOMAIN badges \subseteq DOMAIN badges']_vars

\* A batch call has failed and was rolled back on a store that held a
\* campaign; the campaign is still there.
C26_Witness ==
  /\ last.n = 2
  /\ last.op = "syncBatch"
  /\ last.code = 500
  /\ DOMAIN campaigns # {}

\* A step of the settlement path or of the chain writer inside it.
SettlementStep == settle' # settle \/ chain' # chain

\* C27: the settlement path and the chain writer never write the campaign,
\* withdrawal or badge tables nor the sync-status ledger; the only cache write
\* of a settlement confirmation is the insert of one synthetic donation row.
C27_SettlementWritesOneDonation ==
  [][SettlementStep
     => /\ UNCHANGED <<campaigns, withdrawals, badges, syncStatus>>
        /\ \/ UNCHANGED donations
           \/ \E i \in DOMAIN settle :
                /\ settle[i].pc = "insert"
                /\ QrisPrefix \o settle[i].order \notin DOMAIN donations
                /\ DOMAIN donations' = DOMAIN donations \cup {QrisPrefix \o settle[i].order}
                /\ \A id \in DOMAIN donations : donations'[id] = donations[id]
                /\ donations'[QrisPrefix \o settle[i].order].payment_method = "QRIS"]_vars

\* A settlement confirmation has stored its synthetic donation; the ledger has
\* counted nothing and only the delivered campaign is cached.
C27_Witness ==
  /\ \E i \in DOMAIN settle :
       /\ settle[i].pc = "done"
       /\ settle[i].code = 200
       /\ QrisPrefix \o settle[i].order \in DOMAIN donations
       /\ donations[QrisPrefix \o settle[i].order].payment_method = "QRIS"
  /\ SyncRow(syncStatus, "donation").total_synced = 0
  /\ withdrawals = << >>
  /\ badges = << >>

\* The sync_status rows of an entity type.
RowsOf(entityType) == {i \in DOMAIN syncStatus : syncStatus[i].entity_type = entityType}

C29_AlwaysHealthy ==
  \A i \in DOMAIN syncStatus :
    syncStatus[i].status = "healthy" /\ syncStatus[i].error_message = UndefS

\* A webhook call has been refused by the store and a poll cycle whose
\* campaign request failed has finished; all rows of the ledger read healthy.
C29_Witness ==
  /\ last.code = 500
  /\ \E i \in DOMAIN ticks : ticks[i].pc = "done"
  /\ campaigns = << >>
  /\ \A i \in DOMAIN syncStatus : syncStatus[i].status = "healthy"

\* C30: when a settled payment names a campaign id that is absent from the
\* campaign cache, the settlement path answers not-found and writes nothing:
\* the step that finds the campaign absent ends the call with 404 and leaves
\* the store and the chain as they are, and a call answered 404 has no mint,
\* approve or donate transaction and takes no further step.
C30_AbsentCampaignNotFound ==
  [][\A i \in DOMAIN settle :
       /\ (/\ settle[i].pc = "campaign"
           /\ settle[i].campaignId \notin DOMAIN campaigns
           /\ settle'[i] # settle[i])
          => /\ settle'[i].pc = "done"
             /\ settle'[i].code = 404
             /\ UNCHANGED <<storeVars, chain>>
       /\ settle[i].code = 404
          => /\ settle'[i] = settle[i]
             /\ \A k \in DOMAIN chain' : chain'[k].by # i]_vars

\* A confirmation of a settled payment for campaign 1 was answered 404 while
\* the campaign was not cached: the chain and the donations table are empty.
C30_Witness ==
  /\ \E i \in DOMAIN settle :
       /\ settle[i].pc = "done"
       /\ settle[i].code = 404
       /\ settle[i].campaignId = 1
  /\ campaigns = << >>
  /\ chain = << >>
  /\ donations = << >>

(* ------------------------------ C31 ----------------------------------- *)

\* The call i hands a transaction to the chain in this step.
Submits(i) ==
  /\ settle[i].pc \in {"mint", "approve", "donate"}
  /\ settle'[i].pc # settle[i].pc

\* C31: the nonce of every transaction the chain writer submits is the signing
\* address's transaction count at the moment of submission, also when two
\* settlement calls for different orders run side by side. (The count is read
\* in an earlier step than the submission, so a second call can confirm a
\* transaction in between and the first one submits a nonce already used.)
C31_NonceIsCurrentCount ==
  [][\A i \in DOMAIN settle : Submits(i) => settle[i].nonce = TransactionCount]_vars

(* ------------------------------ C32 ----------------------------------- *)

\* The mintBadge transactions confirmed for a campaign; every badge check of
\* the behaviours is for the same donor.
BadgeMints(campaignId) ==
  {k \in DOMAIN chain : chain[k].kind = "mintBadge" /\ chain[k].campaignId = campaignId}

\* C32: whatever calls of checkAndMintBadge are made for one donor, at most one
\* mintBadge transaction is submitted per campaign, and none for a campaign
\* that is absent from the cache. (The check reads blockchain_badges, which
\* only the indexer fills; until the minted badge is delivered a second call
\* finds no badge and mints again.)
C32_OneBadgePerCampaign ==
  \A c \in {1, 2} : Cardinality(BadgeMints(c)) <= 1

(* ------------------------------ C33 ----------------------------------- *)

\* C33: whenever a settlement confirmation has answered success after running
\* the chain writer, the donation row qris-<order id> is in the store, so the
\* anti-replay check finds it on every later call. (The insert sits in a try
\* block of its own whose catch only logs.)
C33_SuccessLeavesRow ==
  \A i \in DOMAIN settle :
     (settle[i].pc = "done" /\ settle[i].message = "QRIS payment processed")
        => existingTransaction(donations, settle[i].order) # {}

(* ------------------------------ C34 ----------------------------------- *)

\* C34: a settlement confirmation leaves the donation table as it was unless
\* its whole mint, approve, donate sequence was confirmed: a row is added only
\* by a call that has its three transactions on the chain; a call answered
\* "Transaction not settled" ends at the status check with no transaction of
\* its own; and the step in which the chain writer fails ends the call with a
\* failure answer and no row.
C34_RowOnlyAfterWholeSequence ==
  [][/\ donations' # donations
        => \E i \in DOMAIN settle :
             /\ settle[i].pc = "insert"
             /\ KindsBy(i) = <<"mint", "approve", "donate">>
             /\ DOMAIN donations' \ DOMAIN donations = {QrisPrefix \o settle[i].order}
     /\ \A i \in DOMAIN settle :
          /\ (settle[i].pc = "status" /\ settle'[i].message = "Transaction not settled")
             => /\ settle'[i].pc = "done"
                /\ {k \in DOMAIN chain' : chain'[k].by = i} = {}
                /\ donations' = donations
          /\ (/\ settle[i].pc \in {"mint", "approve", "donate"}
              /\ settle'[i] # settle[i]
              /\ chain' = chain)
             => /\ settle'[i].pc = "done"
                /\ settle'[i].code = 500
                /\ donations' = donations
          /\ settle[i].pc = "done" => settle'[i] = settle[i]]_vars

\* C34 happens: a call whose mint and approve were confirmed failed at the
\* donate, was answered 500, and the donation table is still empty.
C34_Witness ==
  \E i \in DOMAIN settle :
    /\ settle[i].pc = "done"
    /\ settle[i].message = "Minting and donation failed"
    /\ KindsBy(i) = <<"mint", "approve">>
    /\ donations = << >>

(* ------------------------------ C35 ----------------------------------- *)

ReferencesKept ==
  /\ \A id \in DOMAIN donations' : donations'[id].campaign_id \in DOMAIN campaigns'
  /\ \A id \in DOMAIN withdrawals' : withdrawals'[id].campaign_id \in DOMAIN campaigns'

\* C36 as stated: referential integrity holds in every state, and every
\* donation or withdrawal webhook call whose payload names a campaign that is
\* not cached is answered with a failure and changes no table and no ledger row.
C36_AsStated ==
  [][/\ ReferencesKept
     /\ (/\ Answered("syncDonation") \/ Answered("syncWithdrawal")
         /\ last'.key = PONDER_API_KEY
         /\ last'.body.campaignId # UndefN
         /\ last'.body.campaignId \notin DOMAIN campaigns)
        => /\ last'.code \in {400, 500}
           /\ UNCHANGED storeVars]_vars

\* C36 amended: the same, for a payload whose own id is not stored yet. (A
\* re-delivered id is a no-op of ON CONFLICT DO NOTHING whatever campaign the
\* payload names: the foreign key is checked for inserted rows only.)
C36_ReferentialIntegrity ==
  [][/\ ReferencesKept
     /\ (/\ Answered("syncDonation") \/ Answered("syncWithdrawal")
         /\ last'.key = PONDER_API_KEY
         /\ last'.body.campaignId # UndefN
         /\ last'.body.campaignId \notin DOMAIN campaigns
         /\ last'.body.id \notin DOMAIN donations \cup DOMAIN withdrawals)
        => /\ last'.code \in {400, 500}
           /\ UNCHANGED storeVars]_vars

\* C36 happens: with campaign 1 cached and a donation of it stored, a complete
\* donation or withdrawal payload naming the uncached campaign 2 was answered
\* 500, and no row names campaign 2.
C36_Witness ==
  /\ last.op \in {"syncDonation", "syncWithdrawal"}
  /\ last.code = 500
  /\ last.body.campaignId = 2
  /\ DOMAIN campaigns = {1}
  /\ last.body.id \notin DOMAIN donations \cup DOMAIN withdrawals
  /\ DOMAIN donations \cup DOMAIN withdrawals # {}

(* ------------------------------ C37 ----------------------------------- *)

\* The position of the first item of the list that the store rejects, 0 when it
\* rejects none: an item that lacks a NOT NULL column, or a new id whose
\* campaign is not cached. `stored` are the ids in the table before the list,
\* `lacking` the positions of the items that lack a column.
FirstRejected(items, stored, lacking) ==
  LET rejected ==
        {j \in DOMAIN items :
           \/ j \in lacking
           \/ /\ items[j].id \notin stored \cup {items[m].id : m \in 1..(j - 1)}
              /\ items[j].campaignId \notin DOMAIN campaigns}
  IN IF rejected = {} THEN 0 ELSE CHOOSE j \in rejected : \A m \in rejected : j <= m

\* C37: when the store rejects item k of the donation or withdrawal list of a
\* poll cycle, the items before k are stored and stay, no item after k is written
\* in that cycle, the rows stored before are as they were, and the cycle goes on
\* with the next entity type (or ends normally after the withdrawals).
C37_PollerStopsAtFirstFailure ==
  [][\A i \in DOMAIN ticks :
       /\ \A a \in DonationAnswers :
            LET k == FirstRejected(a.items, DOMAIN donations,
                                   {j \in DOMAIN a.items : DonationLacks(a.items[j])})
            IN (ticks[i].pc = "donations" /\ a.ok /\ PollDonationsStep(i, a) /\ k # 0)
               => /\ DOMAIN donations'
                       = DOMAIN donations \cup {a.items[m].id : m \in 1..(k - 1)}
                  /\ \A id \in DOMAIN donations : donations'[id] = donations[id]
                  /\ ticks'[i].pc = "badges"
       /\ \A a \in WithdrawalAnswers :
            LET k == FirstRejected(a.items, DOMAIN withdrawals,
                                   {j \in DOMAIN a.items : WithdrawalLacks(a.items[j])})
            IN (/\ ticks[i].pc = "withdrawals" /\ a.ok
                /\ PollWithdrawalsStep(i, a) /\ k # 0)
               => /\ DOMAIN withdrawals'
                       = DOMAIN withdrawals \cup {a.items[m].id : m \in 1..(k - 1)}
                  /\ \A id \in DOMAIN withdrawals : withdrawals'[id] = withdrawals[id]
                  /\ ticks'[i].pc = "done"
                  /\ ~isRunning']_vars

\* C37 happens: the only poll cycle so far got the donations d1, a donation
\* without donor, d2; d1 is stored and d2 is not, and the cycle went on to store
\* a badge.
C37_Witness ==
  /\ Len(ticks) = 1
  /\ DOMAIN donations = {D1}
  /\ donations[D1].campaign_id = 1
  /\ DOMAIN badges # {}

(* ------------------------------ C38 ----------------------------------- *)

\* C38: when the UPDATE of sync_status fails inside a webhook call whose entity
\* write the store has accepted, the failure is swallowed: the call is answered
\* 200, the row it wrote is in its table, and the ledger is as it was.
C38_LedgerFailureSwallowed ==
  [][/\ \A body \in CampaignBodies :
          (/\ Answered("syncCampaign")
           /\ syncCampaign(PONDER_API_KEY, body, TRUE)
           /\ ~CampaignMissing(body))
          => /\ last'.code = 200
             /\ body.id \in DOMAIN campaigns'
             /\ campaigns'[body.id].name = body.name
             /\ syncStatus' = syncStatus
     /\ \A body \in DonationBodies :
          (/\ Answered("syncDonation")
           /\ syncDonation(PONDER_API_KEY, body, TRUE)
           /\ ~DonationMissing(body)
           /\ body.id \notin DOMAIN donations
           /\ body.campaignId \in DOMAIN campaigns)
          => /\ last'.code = 200
             /\ body.id \in DOMAIN donations'
             /\ donations'[body.id].transaction_hash = body.transactionHash
             /\ syncStatus' = syncStatus
     /\ \A body \in WithdrawalBodies :
          (/\ Answered("syncWithdrawal")
           /\ syncWithdrawal(PONDER_API_KEY, body, TRUE)
           /\ ~WithdrawalMissing(body) /\ ~WithdrawalLacks(body)
           /\ body.id \notin DOMAIN withdrawals
           /\ body.campaignId \in DOMAIN campaigns)
          => /\ last'.code = 200
             /\ body.id \in DOMAIN withdrawals'
             /\ withdrawals'[body.id].transaction_hash = body.transactionHash
             /\ syncStatus' = syncStatus
     /\ \A body \in BadgeBodies :
          (/\ Answered("syncBadge")
           /\ syncBadge(PONDER_API_KEY, body, TRUE)
           /\ ~BadgeMissing(body)
           /\ body.blockNumber # UndefN /\ body.timestamp # UndefN)
          => /\ last'.code = 200
             /\ body.tokenId \in DOMAIN badges'
             /\ badges'[body.tokenId].owner = body.owner
             /\ syncStatus' = syncStatus]_vars

\* C38 happens: the donation webhook has answered 200 and its row is stored,
\* while the ledger has counted no donation.
C38_Witness ==
  /\ last.op = "syncDonation" /\ last.code = 200
  /\ last.body.id \in DOMAIN donations
  /\ donations[last.body.id].transaction_hash = last.body.transactionHash
  /\ SyncRow(syncStatus, "donation").total_synced = 0

(* ------------------------------ C39 ----------------------------------- *)

\* C39: a call of the campaign-balance webhook creates no campaign row and
\* leaves the other tables and the sync-status ledger alone; with the secret and
\* both fields present it is answered 200 and changes, of the campaign it names
\* and only if that campaign is cached, the balance and the sync timestamp,
\* while name, owner, creator, target amount and creation time stay; any other
\* call changes nothing in the store.
C39_BalanceWebhookFrame ==
  [][Answered("syncCampaignBalance")
     => /\ UNCHANGED <<donations, withdrawals, badges, syncStatus>>
        /\ DOMAIN campaigns' = DOMAIN campaigns
        /\ IF /\ last'.key = PONDER_API_KEY
              /\ last'.body.campaignId # UndefN
              /\ last'.body.newBalance # UndefN
           THEN /\ last'.code = 200
                /\ \A id \in DOMAIN campaigns :
                     IF id = last'.body.campaignId
                     THEN /\ campaigns'[id].balance = last'.body.newBalance
                          /\ campaigns'[id]
                               = [campaigns[id] EXCEPT
                                    !.balance = last'.body.newBalance,
                                    !.last_synced_at = campaigns'[id].last_synced_at]
                     ELSE campaigns'[id] = campaigns[id]
           ELSE /\ last'.code \in {400, 401}
                /\ campaigns' = campaigns]_vars

\* C39 happens: the balance webhook was answered 200 for the cached campaign 1,
\* whose balance is the new one and whose name is still the delivered one, and
\* the ledger counts the campaign delivery only.
C39_Witness ==
  /\ last.op = "syncCampaignBalance" /\ last.code = 200
  /\ last.body.campaignId \in DOMAIN campaigns
  /\ campaigns[last.body.campaignId].balance = last.body.newBalance
  /\ campaigns[last.body.campaignId].name = "A"
  /\ SyncRow(syncStatus, "campaign").total_synced = 1

====
